---- MODULE Spec2Model ----
(***************************************************************************)
(* A model of amazing-gitlab-exporter: the header-aware rate limiter, the  *)
(* GitLab client's per-call protocol, the scheduler's worker loops and the *)
(* collectors' publication of observations to /metrics scrapes.            *)
(*                                                                         *)
(* Time is counted in ticks; Second ticks make one second, so that the     *)
(* arithmetic the code does on durations (finer than a second) is kept.    *)
(***************************************************************************)
EXTENDS Integers, Sequences, FiniteSets, TLC

\* ------------------------------------------------------------------ bounds

\* The clock stops advancing at MaxTime ticks.
MaxTime == 4
\* Burst of the local token bucket (gitlab.burst_requests_per_second).
Burst == 1
\* Pages (or project paths) one paginated / batched client call walks at most.
MaxPages == 2
\* runFunc invocations one scheduler worker makes at most.
MaxRuns == 3
\* Runs the pipelines collector makes at most.
MaxCycles == 2
\* Explicitly configured projects, at most; wildcards, at most.
MaxExplicit == 2
MaxWildcards == 2
MaxMRs == 2
\* Sources pipelineKind is applied to in one behaviour, at most.
MaxSources == 2
\* Direct calls of UpdateFromHeaders in one behaviour, at most.
MaxFeeds == 2
\* Pages one listing has at most; the highest page number a response names.
MaxFetches == 3
MaxNextPage == 4
\* Bridge jobs of one parent pipeline, at most.
MaxBridges == 2
MaxChangesLen == 3
MaxEnqueues == 4
MaxRepoRuns == 2

\* ------------------------------------------------------------- time values

\* time.Second, in ticks.
Second == 2
\* The zero time.Time (year 1): earlier than every instant that occurs.
ZeroTime == -100
\* Process start, in ticks since the Unix epoch.
StartTime == 1

Max(a, b) == IF a > b THEN a ELSE b
Min(a, b) == IF a < b THEN a ELSE b

\* math.Ceil(float64(a) / float64(b)) for a > 0, b > 0.
Ceil_Truncated(a, b) == a \div b
Ceil(a, b) == (a + b - 1) \div b

\* ------------------------------------------------------- header parsing

DigitChars == <<"0", "1", "2", "3", "4", "5", "6", "7", "8", "9">>
IsDigit(ch) == \E i \in 1..10 : DigitChars[i] = ch
DigitVal(ch) == (CHOOSE i \in 1..10 : DigitChars[i] = ch) - 1

ParseErr == [ok |-> FALSE, val |-> 0]

RECURSIVE ParseDigits(_, _)
ParseDigits(s, acc) ==
    IF s = <<>> THEN [ok |-> TRUE, val |-> acc]
    ELSE IF IsDigit(Head(s)) THEN ParseDigits(Tail(s), acc * 10 + DigitVal(Head(s)))
    ELSE ParseErr

\* strconv.Atoi / strconv.ParseInt(s, 10, 64): an optional sign, then one or
\* more decimal digits; anything else is an error.
Atoi(s) ==
    IF s = <<>> THEN ParseErr
    ELSE LET signed == Head(s) \in {"+", "-"}
             body   == IF signed THEN Tail(s) ELSE s
         IN  IF body = <<>> THEN ParseErr
             ELSE LET r == ParseDigits(body, 0)
                  IN  IF ~r.ok THEN ParseErr
                      ELSE [ok |-> TRUE, val |-> IF Head(s) = "-" THEN 0 - r.val ELSE r.val]

\* time.Unix(epoch, 0), in ticks.
Unix(epoch) == epoch * Second

\* Header values a response may carry; <<>> is "header absent".
RetryAfterVals == { <<>>, <<"x">>, <<"0">>, <<"1">> }
RemainingVals  == { <<>>, <<"x">>, <<"-", "1">>, <<"0">>, <<"1">>, <<"1", "0">> }
ResetVals      == { <<>>, <<"x">>, <<"1">>, <<"2">> }
Headers == [ra : RetryAfterVals, rem : RemainingVals, reset : ResetVals]
NoHeaders == [ra |-> <<>>, rem |-> <<>>, reset |-> <<>>]

\* ----------------------------------------------------------------- state

Callers == {"c1", "c2"}

\* The call a caller is making, by the protocol its code follows.
Kinds == {"DoREST", "Get", "ListPage", "GraphQL", "Direct"}
\* Kinds whose code calls RateLimiter.Wait before dispatching.
WaitingKinds == {"DoREST", "Get", "ListPage", "GraphQL"}

Statuses == {200, 404, 429}

VARIABLES
    now,              \* the wall clock, in ticks
    backoffUntil,     \* RateLimiter.backoffUntil
    headerRemaining,  \* RateLimiter.headerRemaining
    headerReset,      \* RateLimiter.headerReset
    tokens,           \* tokens in RateLimiter.local
    ctxDone,          \* the callers' context has been cancelled
    pc,               \* where each caller is in its call
    kind,             \* the call each caller is making
    backoff,          \* Wait's local copy of backoffUntil
    page,             \* page number (pages fetched) or project paths left
    lastRetryAfter,   \* Retry-After seconds of the response last fed to the limiter (0: none usable)
    call,             \* what has happened in the caller's current (last) request
    grant,            \* how Wait's return stood to the deadlines, request in flight
    startObl,         \* the deadlines announced before the caller's Wait began
    obl               \* deadlines announced by the responses processed so far

\* The scheduler (Scheduler, Task). A task is named after its collector.
Tasks == {"pipelines", "jobs", "dora"}

VARIABLES
    tasks,            \* Scheduler.tasks: the tasks added with AddTask
    started,          \* Scheduler.Start has run
    cancelled,        \* the workers' context is done
    wg,               \* Scheduler.wg: workers that have not returned
    wpc,              \* where each task's worker goroutine is
    ticks,            \* ticks pending in each worker's ticker.C (capacity 1)
    runs,             \* runFunc invocations each worker has begun
    lastResult,       \* how each task's last finished runFunc ended
    stopPc,           \* where the caller of Scheduler.Stop is
    crashed           \* the process died of an unrecovered panic

\* The pipelines collector (PipelinesCollector) and the API it reads.
VARIABLES
    api,              \* what GitLab lists for each project: its pipelines
    pm,               \* the collector's metric vectors
    ppc,              \* where Run is: "idle", "list" or "get"
    proj,             \* index in c.projects of the project Run is at
    todo,             \* pipelines listed for that project and not yet fetched
    cycles,           \* Runs begun
    lastComplete,     \* the metric vectors as the last completed Run left them
    scraped,          \* what the last Collect emitted, and lastComplete then
    fetched,          \* per project, what the Run under way has fetched of it
    streak            \* completed Runs in a row that read the whole, same API state

\* The merge-requests collector (MergeRequestsCollector).
VARIABLES
    mrObs,            \* c.observations: scrapeErrors, and throughput per project
    mrScraped         \* what the last Collect emitted of them

\* The exporter (NewExporter, Exporter.Run) and what it is given.
VARIABLES
    cfg,              \* the configuration: collectors enabled, Redis URL set, explicit projects
    listings,         \* what GitLab answers to the listing of each configured wildcard
    instance,         \* the GitLab instance: whether /version answers, its capabilities
    features,         \* Client.features
    store,            \* the store chosen, and whether it is closed
    epc,              \* where NewExporter / Exporter.Run is
    projects,         \* the projects discoverProjects returned
    collectorEnabled, \* the gauge age_collector_enabled, per collector_type
    registry,         \* Registry.collectors
    srv,              \* the HTTP server: "none", "created", "up", "failed", "stopped"
    ready,            \* Server.ready
    elog              \* the steps NewExporter and Run have taken, in order

\* The stores (MemoryStore, RedisStore) behind the Store interface.
VARIABLES
    memData,          \* MemoryStore.data
    redisData,        \* the Redis keys age:last_updated:<key>, as strings
    written,          \* per store, what SetLastUpdated was last given for each key
    sres              \* the last store call and what it returned

\* The configuration the HTTP server holds, and its /config endpoint.
VARIABLES
    conf,             \* Server.config: the string fields of config.Config
    cresp             \* the last redacted rendering of it, and its body

\* The webhook receiver (WebhookHandler).
VARIABLES
    hook,             \* the handler: secretToken, and which callbacks are registered
    hresp             \* the last request served, the handler that served it, its
                      \* status and the callbacks it invoked

hookVars == <<hook, hresp>>

\* Tier detection (TierDetector.Detect).
VARIABLES
    tpc,              \* where Detect is
    detected,         \* the DetectedFeatures that Detect fills in
    probed            \* the answers the instance gave to Detect's requests

tierVars == <<tpc, detected, probed>>

\* Pipeline kind derivation (pipelineKind).
VARIABLES
    derived           \* the pairs <<source, kind>> that pipelineKind has produced

kindVars == <<derived>>

\* UpdateFromHeaders called on its own.
VARIABLES
    fed               \* the last direct call: its headers, its time, backoffUntil
                      \* before it; the number of direct calls

feedVars == <<fed>>

\* One paginated client call (fetchAllPages).
VARIABLES
    fap               \* the call: where it is, the page it asks for, the Waits that
                      \* succeeded, the pages requested, what the server answered

pagesVars == <<fap>>

\* The DORA collector (DORACollector).
VARIABLES
    dora,             \* one Run: its configuration, where it is, obs and errCount,
                      \* the answer to its last request, the requests made
    doraObs           \* c.observations

doraVars == <<dora, doraObs>>

\* Child-pipeline discovery (PipelinesCollector.collectChildPipelines).
VARIABLES
    disc,             \* one discovery: where it is, the bridges listed, the answer
                      \* to the last GetPipeline
    childM            \* the child metric vectors: duration, queued, status, runCount

childVars == <<disc, childM>>

\* The changes count of one merge request (MergeRequestsCollector.Run).
VARIABLES
    chg               \* the ChangesCount string of the merge request at hand and
                      \* the changesCount observations appended for it

changesVars == <<chg>>

\* The on-demand task queue (scheduler.TaskQueue).
VARIABLES
    tq                \* the buffered channel, Start's position, the task it is
                      \* running, and the record of what was enqueued and run

queueVars == <<tq>>

\* Loading the configuration (the run command's Action).
VARIABLES
    cmd               \* one start of the run command: where it is, what the
                      \* file, the environment and the command line set, and the
                      \* configuration being built

loadVars == <<cmd>>

\* The repository collector (RepositoryCollector), a snapshot-style collector.
VARIABLES
    repo,             \* the Run in progress: its position, the observations it
                      \* has built, its error count, the state of its context
    repoObs           \* c.observations, what Collect reads

repoVars == <<repo, repoObs>>
confVars == <<conf, cresp>>
storeVars == <<memData, redisData, written, sres>>
rlVars == <<now, backoffUntil, headerRemaining, headerReset, tokens, ctxDone>>
callVars == <<pc, kind, backoff, page, lastRetryAfter, call, grant, startObl, obl>>
clientVars == <<now, backoffUntil, headerRemaining, headerReset, tokens, ctxDone,
                pc, kind, backoff, page, lastRetryAfter, call, grant, startObl, obl>>
schedVars == <<tasks, started, cancelled, wg, wpc, ticks, runs, lastResult, stopPc, crashed>>
pipeVars == <<api, pm, ppc, proj, todo, cycles, lastComplete, scraped, fetched, streak>>
expVars == <<cfg, listings, instance, features, store, epc, projects,
             collectorEnabled, registry, srv, ready, elog>>
mrVars == <<mrObs, mrScraped>>
vars == <<clientVars, schedVars, pipeVars, expVars, mrVars, storeVars, confVars, hookVars, tierVars, kindVars, feedVars, pagesVars, doraVars, childVars, changesVars, queueVars, loadVars, repoVars>>
nonClientVars == <<schedVars, pipeVars, expVars, mrVars, storeVars, confVars, hookVars, tierVars, kindVars, feedVars, pagesVars, doraVars, childVars, changesVars, queueVars, loadVars, repoVars>>
nonClientFeedVars == <<schedVars, pipeVars, expVars, mrVars, storeVars, confVars, hookVars, tierVars, kindVars, pagesVars, doraVars, childVars, changesVars, queueVars, loadVars, repoVars>>
nonSchedVars == <<clientVars, pipeVars, expVars, mrVars, storeVars, confVars, hookVars, tierVars, kindVars, feedVars, pagesVars, doraVars, childVars, changesVars, queueVars, loadVars, repoVars>>
nonPipeVars == <<clientVars, schedVars, expVars, mrVars, storeVars, confVars, hookVars, tierVars, kindVars, feedVars, pagesVars, doraVars, childVars, changesVars, queueVars, loadVars, repoVars>>
nonExpVars == <<clientVars, pipeVars, mrVars, storeVars, confVars, hookVars, tierVars, kindVars, feedVars, pagesVars, doraVars, childVars, changesVars, queueVars, loadVars, repoVars>>
nonMRVars == <<clientVars, schedVars, pipeVars, expVars, storeVars, confVars, hookVars, tierVars, kindVars, feedVars, pagesVars, doraVars, childVars, changesVars, queueVars, loadVars, repoVars>>
nonStoreVars == <<clientVars, schedVars, pipeVars, expVars, mrVars, confVars, hookVars, tierVars, kindVars, feedVars, pagesVars, doraVars, childVars, changesVars, queueVars, loadVars, repoVars>>
nonConfVars == <<clientVars, schedVars, pipeVars, expVars, mrVars, storeVars, hookVars, tierVars, kindVars, feedVars, pagesVars, doraVars, childVars, changesVars, queueVars, loadVars, repoVars>>
nonHookVars == <<clientVars, schedVars, pipeVars, expVars, mrVars, storeVars, confVars, tierVars, kindVars, feedVars, pagesVars, doraVars, childVars, changesVars, queueVars, loadVars, repoVars>>
nonTierVars == <<clientVars, schedVars, pipeVars, expVars, mrVars, storeVars, confVars, hookVars, kindVars, feedVars, pagesVars, doraVars, childVars, changesVars, queueVars, loadVars, repoVars>>
nonKindVars == <<clientVars, schedVars, pipeVars, expVars, mrVars, storeVars, confVars, hookVars, tierVars, feedVars, pagesVars, doraVars, childVars, changesVars, queueVars, loadVars, repoVars>>
nonFeedVars == <<clientVars, schedVars, pipeVars, expVars, mrVars, storeVars, confVars, hookVars, tierVars, kindVars, pagesVars, doraVars, childVars, changesVars, queueVars, loadVars, repoVars>>
nonPagesVars == <<clientVars, schedVars, pipeVars, expVars, mrVars, storeVars, confVars, hookVars, tierVars, kindVars, feedVars, doraVars, childVars, changesVars, queueVars, loadVars, repoVars>>
nonDoraVars == <<clientVars, schedVars, pipeVars, expVars, mrVars, storeVars, confVars, hookVars, tierVars, kindVars, feedVars, pagesVars, childVars, changesVars, queueVars, loadVars, repoVars>>
nonChildVars == <<clientVars, schedVars, pipeVars, expVars, mrVars, storeVars, confVars, hookVars, tierVars, kindVars, feedVars, pagesVars, doraVars, changesVars, queueVars, loadVars, repoVars>>
nonChangesVars == <<clientVars, schedVars, pipeVars, expVars, mrVars, storeVars, confVars, hookVars, tierVars, kindVars, feedVars, pagesVars, doraVars, childVars, queueVars, loadVars, repoVars>>
nonQueueVars == <<clientVars, schedVars, pipeVars, expVars, mrVars, storeVars, confVars, hookVars, tierVars, kindVars, feedVars, pagesVars, doraVars, childVars, changesVars, loadVars, repoVars>>
nonLoadVars == <<clientVars, schedVars, pipeVars, expVars, mrVars, storeVars, confVars, hookVars, tierVars, kindVars, feedVars, pagesVars, doraVars, childVars, changesVars, queueVars, repoVars>>
nonRepoVars == <<clientVars, schedVars, pipeVars, expVars, mrVars, storeVars, confVars, hookVars, tierVars, kindVars, feedVars, pagesVars, doraVars, childVars, changesVars, queueVars, loadVars>>

NoObl == [reset |-> ZeroTime, resetNoRA |-> ZeroTime, retry |-> ZeroTime]
\* A request's record: whether Wait returned nil, whether the request was
\* dispatched, whether a response arrived (and with an error status), whether
\* its headers were fed back to the limiter.
NoCall == [waited |-> FALSE, dispatched |-> FALSE, gotResp |-> FALSE,
           errStatus |-> FALSE, fed |-> FALSE]
\* For the request in flight: whether Wait returned while now < backoffUntil,
\* and whether it returned before a deadline announced before Wait began.
NoGrant == [early |-> FALSE, beforeReset |-> FALSE, beforeResetNoRA |-> FALSE,
            beforeRetry |-> FALSE]

\* NewScheduler, and AddTask for every task of ts.
NewScheduler(ts) ==
    /\ tasks = ts
    /\ started = FALSE
    /\ cancelled = FALSE
    /\ wg = 0
    /\ wpc = [t \in Tasks |-> "none"]
    /\ ticks = [t \in Tasks |-> 0]
    /\ runs = [t \in Tasks |-> 0]
    /\ lastResult = [t \in Tasks |-> "none"]
    /\ stopPc = "none"
    /\ crashed = FALSE

\* A scheduler of its own, with every task added.
InitSched == NewScheduler(Tasks)

\* NewRateLimiter; New (client).
InitClient ==
    /\ now = StartTime
    /\ backoffUntil = ZeroTime
    /\ headerRemaining = -1
    /\ headerReset = ZeroTime
    /\ tokens = Burst
    /\ ctxDone = FALSE
    /\ pc = [c \in Callers |-> "idle"]
    /\ kind = [c \in Callers |-> "DoREST"]
    /\ backoff = [c \in Callers |-> ZeroTime]
    /\ page = [c \in Callers |-> 0]
    /\ lastRetryAfter = 0
    /\ call = [c \in Callers |-> NoCall]
    /\ grant = [c \in Callers |-> NoGrant]
    /\ startObl = [c \in Callers |-> NoObl]
    /\ obl = NoObl

\* The pipelines GitLab has: id, ref, source and status, duration and queued
\* duration in seconds, the coverage string, and created_at (0: absent).
P10 == [id |-> 10, ref |-> "main", source |-> "push", status |-> "success",
        duration |-> 120, queued |-> 3, coverage |-> <<"8", "5">>, created |-> 7]
P9  == [id |-> 9, ref |-> "main", source |-> "push", status |-> "failed",
        duration |-> 45, queued |-> 0, coverage |-> <<>>, created |-> 0]
P20 == [id |-> 20, ref |-> "main", source |-> "schedule", status |-> "success",
        duration |-> 0, queued |-> 1, coverage |-> <<"x">>, created |-> 5]

\* c.projects, as registerCollectors passes the discovered projects.
PipeProjects == <<"p1", "p2">>

\* What GitLab may list per project, newest pipeline first.
ApiStates ==
    { [p \in {"p1", "p2"} |-> IF p = "p1" THEN a ELSE b] :
        a \in { <<P10, P9>>, <<P9>> }, b \in { <<P20>>, <<>> } }

\* No project has been turned to yet by the Run under way.
NotFetched == [p \in {"p1", "p2"} |-> [state |-> "none", got |-> {}]]

\* The metric vectors of a new PipelinesCollector: no series yet.
NoMetrics ==
    [duration |-> <<>>, queuedDuration |-> <<>>, status |-> <<>>,
     runCount |-> <<>>, coverage |-> <<>>, id |-> <<>>, createdTS |-> <<>>]

\* NewPipelinesCollector, before its first Run.
InitPipe ==
    /\ api = [p \in {"p1", "p2"} |-> IF p = "p1" THEN <<P10, P9>> ELSE <<P20>>]
    /\ pm = NoMetrics
    /\ ppc = "idle"
    /\ proj = 0
    /\ todo = <<>>
    /\ cycles = 0
    /\ lastComplete = NoMetrics
    /\ scraped = [taken |-> FALSE, values |-> NoMetrics, complete |-> NoMetrics]
    /\ fetched = NotFetched
    /\ streak = 0

\* The collectors, in the order registerCollectors declares them.
CollectorKinds ==
    <<"pipelines", "jobs", "merge_requests", "environments", "test_reports",
      "dora", "value_stream", "code_review", "repository", "contributors">>

KindSet == { CollectorKinds[i] : i \in 1..Len(CollectorKinds) }

\* Client.features before SetFeatures: nil.
NilFeatures ==
    [isNil |-> TRUE, hasDORA |-> FALSE, hasValueStream |-> FALSE, hasCodeReview |-> FALSE]

\* The pages a wildcard's listing may return (project paths, in page order).
Pages == { <<"a">>, <<"b", "c">> }

\* What GitLab answers to one wildcard's listing: the pages it returns one
\* after the other, and how the listing ends: with a page that names no next
\* page ("last"), or with a request that fails ("error").
Listings ==
    { l \in [pages : UNION { [1..n -> Pages] : n \in 0..MaxPages },
             ends  : {"last", "error"}] :
        l.ends = "last" => Len(l.pages) >= 1 }

\* Explicit project lists (cfg.Projects, by name).
ProjectLists == UNION { [1..n -> {"a", "b"}] : n \in 0..MaxExplicit }

\* Configurations with the collectors en enabled: those with a task in the
\* model may be enabled, the others are disabled.
Config(en, r, ps, nw) ==
    [enabled |-> [k \in KindSet |-> k \in en], redis |-> r, projects |-> ps,
     wildcards |-> nw]

\* GitLab instances: whether /version answers, the capabilities it has.
Instance(v, d) ==
    [versionOk |-> v, hasDORA |-> d, hasValueStream |-> d, hasCodeReview |-> d]

\* The state before NewExporter has done anything, for configuration c,
\* wildcard listings ls and GitLab instance g.
InitExp(c, ls, g) ==
    /\ cfg = c
    /\ listings = ls
    /\ instance = g
    /\ features = NilFeatures
    /\ store = [kind |-> "none", closed |-> FALSE]
    /\ epc = "new"
    /\ projects = <<>>
    /\ collectorEnabled = <<>>
    /\ registry = <<>>
    /\ srv = "none"
    /\ ready = FALSE
    /\ elog = <<>>

\* Strings, as sequences of characters.
Str_info == <<"i", "n", "f", "o">>
Str_main == <<"m", "a", "i", "n">>
Str_glpat == <<"g", "l", "p", "a", "t">>
Str_s3cr3t == <<"s", "3", "c", "r", "3", "t">>
Str_redis == <<"r", "e", "d", "i", "s", ":", "/", "/", "h">>
Str_gitlab == <<"h", "t", "t", "p", "s", ":", "/", "/", "g">>
\* defaults.refs.branches.regexp as ApplyDefaults sets it.
Str_branches ==
    <<"^", "(">> \o Str_main \o <<"|", "m", "a", "s", "t", "e", "r", "|",
      "d", "e", "v", "e", "l", "o", "p", "|", "r", "e", "l", "e", "a", "s", "e",
      "/", ".", "*", ")", "$">>

\* The configured secrets NewServer may be given: the GitLab token
\* (required), the webhook secret and the Redis URL (both optional).
SecretConfigs ==
    [token : {Str_glpat, Str_main, <<"*">>, Str_info},
     secret : {<<>>, Str_s3cr3t, Str_main, <<"*">>, Str_glpat},
     redisURL : {<<>>, Str_redis, Str_glpat}]

DefaultSecrets == [token |-> Str_glpat, secret |-> <<>>, redisURL |-> <<>>]

\* NewServer(cfg, ...): the configuration with the secrets sc and the
\* defaults elsewhere; no request yet.
InitConf(sc) ==
    /\ conf = [level |-> Str_info, secret |-> sc.secret, redisURL |-> sc.redisURL,
               gitlabURL |-> Str_gitlab, token |-> sc.token, branches |-> Str_branches]
    /\ cresp = [via |-> "none", body |-> <<>>, fields |-> <<>>]

\* No webhook request was served yet.
NoRequest ==
    [taken |-> FALSE, handler |-> <<>>, method |-> "", token |-> "", body |-> "", kind |-> "",
     path |-> "", status |-> 0, calls |-> <<>>]

\* NewWebhookHandler(secretToken, logger): no callback registered.
InitHook(secret) ==
    /\ hook = [secretToken |-> secret, onPipelineEvent |-> FALSE, onMREvent |-> FALSE]
    /\ hresp = NoRequest

\* Detect's `features := &DetectedFeatures{}`.
NoFeatures ==
    [HasDORA |-> FALSE, HasValueStream |-> FALSE, HasMRAnalytics |-> FALSE,
     HasCodeReview |-> FALSE, Tier |-> 0, GitLabVersion |-> ""]

InitTier ==
    /\ tpc = "checkVersion"
    /\ detected = NoFeatures
    /\ probed = <<>>

InitKind == derived = {}

\* UpdateFromHeaders was not called yet.
InitFeed ==
    fed = [taken |-> FALSE, n |-> 0, h |-> NoHeaders, at |-> 0, before |-> ZeroTime]

\* No paginated call was made yet.
InitPages ==
    fap = [pc |-> "idle", page |-> 0, waits |-> 0, requested |-> <<>>,
           answers |-> <<>>, all |-> <<>>, err |-> "none"]

\* doraObservations{}.
NoDoraObservations ==
    [deploymentFrequency |-> <<>>, leadTimeForChanges |-> <<>>, timeToRestore |-> <<>>,
     changeFailureRate |-> <<>>, scrapeErrors |-> 0]

\* No answer yet.
NoAnswer == [status |-> "none", series |-> <<>>]

\* NewDORACollector(client, cfg, projects), on an instance with or without
\* the DORA feature, before its Run.
InitDora(projs, tiers, hasDORA) ==
    /\ dora = [pc |-> "start", projects |-> projs, tiers |-> tiers, hasDORA |-> hasDORA,
               p |-> 1, t |-> 1, m |-> 1, errCount |-> 0, obs |-> NoDoraObservations,
               last |-> NoAnswer, asked |-> {}, ret |-> "none"]
    /\ doraObs = NoDoraObservations

\* The child metric vectors of a new PipelinesCollector, and a discovery
\* that has not begun.
NoFetch == [kind |-> "none", duration |-> 0, queued |-> 0]
InitChild ==
    /\ disc = [pc |-> "list", bridges |-> <<>>, i |-> 1, last |-> NoFetch]
    /\ childM = [duration |-> <<>>, queued |-> <<>>, status |-> <<>>, runCount |-> <<>>]

\* No merge request was looked at yet: obs.changesCount is empty.
InitChanges ==
    chg = [pc |-> "mr", input |-> <<>>, obs |-> <<>>]

\* NewTaskQueue(bufferSize, logger): an empty channel of that capacity; Start
\* has not been called.
bufferSize == 2
NoFn == [id |-> 0, panics |-> FALSE]
NewTaskQueue ==
    tq = [ch |-> <<>>, pc |-> "new", fn |-> NoFn, done |-> FALSE,
          n |-> 0, accepted |-> <<>>, dropped |-> <<>>, ran |-> <<>>, log |-> <<>>]

\* &config.Config{}: every field at its zero value. Of the configuration
\* the GitLab URL, the token, the rate limit and the enabled flag of the
\* pipelines collector are kept.
ZeroConfig == [url |-> "", token |-> "", rps |-> 0, pipelines |-> FALSE]

\* What a layer sets: "" and 0 stand for a key the layer does not set, and
\* "unset", "true", "false" for a boolean key of the file.
NoFile == [url |-> "", token |-> "", rps |-> 0, pipelines |-> "unset"]
NoEnv == [url |-> "", token |-> "", rps |-> 0]
NoFlags == [url |-> "", token |-> ""]

\* The run command has not begun.
InitLoad ==
    cmd = [pc |-> "start", path |-> FALSE, file |-> NoFile, env |-> NoEnv,
           flags |-> NoFlags, cfg |-> ZeroConfig, err |-> "none"]

\* NewRepositoryCollector(client, cfg, projects): zero observations, no Run
\* yet, the context Run will be given not cancelled.
NoRepoObservations ==
    [languagePercentage |-> <<>>, sizeBytes |-> <<>>, coverage |-> <<>>, scrapeErrors |-> 0]
InitRepo ==
    /\ repo = [pc |-> "idle", projects |-> <<>>, p |-> 1, obs |-> NoRepoObservations,
               errCount |-> 0, done |-> FALSE, ret |-> "none", runs |-> 0,
               before |-> NoRepoObservations, during |-> FALSE]
    /\ repoObs = NoRepoObservations

\* The keys of the store: project and collector.
StoreKeys == { <<"p1", "pipelines">>, <<"p2", "pipelines">> }

\* No store call was made yet.
NoStoreCall ==
    [op |-> "none", store |-> "none", key |-> <<>>, t |-> ZeroTime, err |-> FALSE,
     failed |-> FALSE]

\* NewMemoryStore; a Redis server without any of the exporter's keys.
InitStore ==
    /\ memData = <<>>
    /\ redisData = <<>>
    /\ written = [memory |-> <<>>, redis |-> <<>>]
    /\ sres = NoStoreCall

\* The projects given to NewMergeRequestsCollector.
MRProjects == <<"p1", "p2">>

\* What ListProjectMergeRequests may answer for one project: an error, or
\* the states of up to MaxMRs merge requests (all of one target branch).
MRStates == {"merged", "opened"}
MRAnswers ==
    { [err |-> TRUE, mrs |-> <<>>] } \cup
    { [err |-> FALSE, mrs |-> m] : m \in UNION { [1..n -> MRStates] : n \in 0..MaxMRs } }

\* The zero mergeRequestObservations of a new MergeRequestsCollector.
NoObservations == [scrapeErrors |-> 0, throughput |-> <<>>]

\* NewMergeRequestsCollector, before its first Run and the first scrape.
InitMR ==
    /\ mrObs = NoObservations
    /\ mrScraped = [taken |-> FALSE, scrapeErrors |-> 0, throughput |-> <<>>]

\* A configuration with every modelled collector enabled, one explicit
\* project, no wildcard; an Ultimate instance.
DefaultConfig == Config(Tasks, FALSE, <<"a">>, 0)
UltimateInstance == Instance(TRUE, TRUE)

Init ==
    /\ InitClient /\ InitSched /\ InitPipe /\ InitMR /\ InitStore
    /\ InitConf(DefaultSecrets) /\ InitHook("")
    /\ InitTier /\ InitKind /\ InitFeed
    /\ InitPages /\ InitDora(<<"p1">>, <<>>, TRUE) /\ InitChild /\ InitChanges /\ NewTaskQueue /\ InitLoad /\ InitRepo
    /\ InitExp(DefaultConfig, <<>>, UltimateInstance)

\* ---------------------------------------------------------- rate limiter

\* if until.After(rl.backoffUntil) { rl.backoffUntil = until }
Extend_Always(bu, until) == until
Extend(bu, until) == IF until > bu THEN until ELSE bu

\* The three headers UpdateFromHeaders reads, parsed: headers.Get gives "" for
\* an absent header, which does not parse.
Parsed(h) == [ra |-> Atoi(h.ra), rem |-> Atoi(h.rem), reset |-> Atoi(h.reset)]

\* Retry-After is present, parses, and is > 0.
RetryAfterUsable(p) == p.ra.ok /\ p.ra.val > 0

\* The value UpdateFromHeaders leaves in backoffUntil, called at time t.
NextBackoff_NoExhausted(bu, t, p) ==
    IF RetryAfterUsable(p) THEN Extend(bu, t + p.ra.val * Second) ELSE bu
NextBackoff(bu, t, p) ==
    IF RetryAfterUsable(p)
    THEN Extend(bu, t + p.ra.val * Second)
    ELSE IF ~p.rem.ok \/ ~p.reset.ok THEN bu
    ELSE LET remaining == p.rem.val
             reset     == Unix(p.reset.val)
         IN  IF remaining <= 0 THEN Extend(bu, reset)
             ELSE IF remaining < 10
                  THEN LET untilReset == reset - t
                       IN  IF untilReset > 0
                           THEN Extend(bu, t + Ceil(untilReset, remaining + 1))
                           ELSE bu
                  ELSE bu

\* The value UpdateFromHeaders leaves in headerRemaining.
NextRemaining(cur, p) ==
    IF RetryAfterUsable(p) THEN cur
    ELSE IF p.rem.ok THEN p.rem.val ELSE cur

\* The value UpdateFromHeaders leaves in headerReset.
NextReset(cur, p) ==
    IF RetryAfterUsable(p) THEN cur
    ELSE IF p.rem.ok /\ p.reset.ok THEN Unix(p.reset.val) ELSE cur

\* The response says: remaining <= 0 and the window resets at a future time.
Exhausted(p, t) == p.rem.ok /\ p.rem.val <= 0 /\ p.reset.ok /\ Unix(p.reset.val) > t

\* A deadline that has passed binds nobody any more.
Pending(d, t) == IF d > t THEN d ELSE ZeroTime

\* The deadlines the responses processed so far have announced.
NextObl(o, t, p) ==
    [reset     |-> IF Exhausted(p, t) THEN Max(o.reset, Unix(p.reset.val)) ELSE o.reset,
     resetNoRA |-> IF Exhausted(p, t) /\ ~RetryAfterUsable(p)
                   THEN Max(o.resetNoRA, Unix(p.reset.val)) ELSE o.resetNoRA,
     retry     |-> IF RetryAfterUsable(p) THEN Max(o.retry, t + p.ra.val * Second)
                   ELSE o.retry]

\* RateLimiter.UpdateFromHeaders(h), under rl.mu.
UpdateFromHeaders(h) ==
    LET p == Parsed(h)
    IN  /\ backoffUntil' = NextBackoff(backoffUntil, now, p)
        /\ headerRemaining' = NextRemaining(headerRemaining, p)
        /\ headerReset' = NextReset(headerReset, p)
        /\ obl' = NextObl(obl, now, p)
        /\ lastRetryAfter' = IF RetryAfterUsable(p) THEN p.ra.val ELSE 0

\* The headers of the direct calls: Retry-After absent, zero or usable,
\* RateLimit-Remaining absent, exhausted, inside 1..9 or at 10, and
\* RateLimit-Reset absent or at one of three times.
FedHeaders ==
    [ra : { <<>>, <<"0">>, <<"1">> },
     rem : { <<>>, <<"0">>, <<"1">>, <<"2">>, <<"9">>, <<"1", "0">> },
     reset : { <<>>, <<"1">>, <<"2">>, <<"3">> }]

\* RateLimiter.UpdateFromHeaders(h), called at time now.
FeedHeaders(h) ==
    /\ fed.n < MaxFeeds
    /\ UpdateFromHeaders(h)
    /\ fed' = [taken |-> TRUE, n |-> fed.n + 1, h |-> h, at |-> now,
               before |-> backoffUntil]
    /\ UNCHANGED <<now, tokens, ctxDone>>
    /\ UNCHANGED <<pc, kind, backoff, page, call, grant, startObl>>
    /\ UNCHANGED nonClientFeedVars

\* Time passes; the local bucket refills up to its burst.
Tick ==
    /\ now < MaxTime
    /\ now' = now + 1
    /\ tokens' = Min(Burst, tokens + 1)
    /\ obl' = [reset |-> Pending(obl.reset, now'), resetNoRA |-> Pending(obl.resetNoRA, now'),
               retry |-> Pending(obl.retry, now')]
    /\ UNCHANGED <<backoffUntil, headerRemaining, headerReset, ctxDone>>
    /\ startObl' = [c \in Callers |->
                      [reset |-> Pending(startObl[c].reset, now'),
                       resetNoRA |-> Pending(startObl[c].resetNoRA, now'),
                       retry |-> Pending(startObl[c].retry, now')]]
    /\ UNCHANGED <<pc, kind, backoff, page, lastRetryAfter, call, grant>>
    /\ UNCHANGED nonClientVars

\* The callers' context is cancelled.
CancelCtx ==
    /\ ~ctxDone
    /\ ctxDone' = TRUE
    /\ UNCHANGED <<now, backoffUntil, headerRemaining, headerReset, tokens>>
    /\ UNCHANGED callVars
    /\ UNCHANGED nonClientVars

\* Where Wait goes after reading backoffUntil (bu) under rl.mu:
\* if !backoff.IsZero() && time.Now().Before(backoff) it sleeps out the delay,
\* otherwise it goes straight to the local bucket.
AfterRead_NoSleep(bu, t) == "local"
AfterRead(bu, t) == IF bu # ZeroTime /\ t < bu THEN "sleep" ELSE "local"

\* Wait's copy of backoffUntil, read while entering: it is used only to sleep.
Deadline(bu, t) == IF AfterRead(bu, t) = "sleep" THEN bu ELSE ZeroTime

\* Wait: case <-time.After(delay).
WaitWake(c) ==
    /\ pc[c] = "sleep"
    /\ now >= backoff[c]
    /\ pc' = [pc EXCEPT ![c] = "local"]
    /\ backoff' = [backoff EXCEPT ![c] = ZeroTime]
    /\ UNCHANGED rlVars
    /\ UNCHANGED <<kind, page, lastRetryAfter, call, grant, startObl, obl>>
    /\ UNCHANGED nonClientVars

\* Wait: case <-ctx.Done() while sleeping, or rl.local.Wait(ctx) failing on a
\* cancelled context: Wait returns the error and the call returns it.
WaitCancelled(c) ==
    /\ pc[c] \in {"sleep", "local"}
    /\ ctxDone
    /\ pc' = [pc EXCEPT ![c] = "idle"]
    /\ page' = [page EXCEPT ![c] = 0]
    /\ startObl' = [startObl EXCEPT ![c] = NoObl]
    /\ backoff' = [backoff EXCEPT ![c] = ZeroTime]
    /\ UNCHANGED rlVars
    /\ UNCHANGED <<kind, lastRetryAfter, call, grant, obl>>
    /\ UNCHANGED nonClientVars

\* rl.local.Wait(ctx) (rate.Limiter.Wait) grants a token: it returns ctx.Err()
\* at once on a context that is done, and reserves a token otherwise.
LocalGrants_IgnoreCtx(done, tk) == tk >= 1
LocalGrants(done, tk) == ~done /\ tk >= 1

\* Wait: rl.local.Wait(ctx) takes one token and Wait returns nil; the caller
\* dispatches its request.
WaitGranted(c) ==
    /\ pc[c] = "local"
    /\ LocalGrants(ctxDone, tokens)
    /\ tokens' = tokens - 1
    /\ pc' = [pc EXCEPT ![c] = "sent"]
    /\ call' = [call EXCEPT ![c].waited = TRUE, ![c].dispatched = TRUE]
    /\ grant' = [grant EXCEPT ![c] =
                   [early           |-> now < backoffUntil,
                    beforeReset     |-> now < startObl[c].reset,
                    beforeResetNoRA |-> now < startObl[c].resetNoRA,
                    beforeRetry     |-> now < startObl[c].retry]]
    /\ startObl' = [startObl EXCEPT ![c] = NoObl]
    /\ backoff' = [backoff EXCEPT ![c] = ZeroTime]
    /\ UNCHANGED <<now, backoffUntil, headerRemaining, headerReset, ctxDone>>
    /\ UNCHANGED <<kind, page, lastRetryAfter, obl>>
    /\ UNCHANGED nonClientVars

\* ------------------------------------------------------------ client calls

\* go-gitlab reports a response outside 200..299 as an error (with the response).
IsErrorStatus(st) == st < 200 \/ st > 299

\* Whether the code of a call of kind k hands the response's headers to
\* UpdateFromHeaders:
\*   DoREST, GetProject/GetPipeline: whenever resp != nil;
\*   a page callback of ListProjects/ListPipelines: only past `if err != nil`;
\*   FetchProjectsWithPipelines and calls through REST(): never.
Feeds(k, st) ==
    \/ k \in {"DoREST", "Get"}
    \/ k = "ListPage" /\ ~IsErrorStatus(st)

\* Whether the call goes on to another request after this response:
\* fetchAllPages follows resp.NextPage; FetchProjectsWithPipelines goes on to
\* the next project path (page counts the paths left).
Continues(k, st, nx, pg) ==
    \/ k = "ListPage" /\ ~IsErrorStatus(st) /\ nx
    \/ k = "GraphQL" /\ pg > 1

\* A caller begins a call of kind k. A kind that waits enters Wait, which
\* reads backoffUntil; a direct use of the REST client
\* (PipelinesCollector.collectProject, DORACollector.Run, discoverProjects,
\* TierDetector probes) dispatches at once.
StartCall(c, k) ==
    /\ pc[c] = "idle"
    /\ kind' = [kind EXCEPT ![c] = k]
    /\ \E n \in 1..MaxPages :
         page' = [page EXCEPT ![c] = IF k = "GraphQL" THEN n
                                     ELSE IF k = "ListPage" THEN 1 ELSE 0]
    /\ IF k \in WaitingKinds
       THEN /\ pc' = [pc EXCEPT ![c] = AfterRead(backoffUntil, now)]
            /\ backoff' = [backoff EXCEPT ![c] = Deadline(backoffUntil, now)]
            /\ startObl' = [startObl EXCEPT ![c] = obl]
            /\ call' = [call EXCEPT ![c] = NoCall]
       ELSE /\ pc' = [pc EXCEPT ![c] = "sent"]
            /\ call' = [call EXCEPT ![c] = [NoCall EXCEPT !.dispatched = TRUE]]
            /\ UNCHANGED <<backoff, startObl>>
    /\ UNCHANGED rlVars
    /\ UNCHANGED <<lastRetryAfter, grant, obl>>
    /\ UNCHANGED nonClientVars

\* The request fails without a response (resp == nil): the call returns the
\* error; FetchProjectsWithPipelines logs it and goes on to the next path,
\* entering Wait again.
NetworkError(c) ==
    /\ pc[c] = "sent"
    /\ IF kind[c] = "GraphQL" /\ page[c] > 1
       THEN /\ pc' = [pc EXCEPT ![c] = AfterRead(backoffUntil, now)]
            /\ backoff' = [backoff EXCEPT ![c] = Deadline(backoffUntil, now)]
            /\ startObl' = [startObl EXCEPT ![c] = obl]
            /\ call' = [call EXCEPT ![c] = NoCall]
            /\ page' = [page EXCEPT ![c] = page[c] - 1]
       ELSE /\ pc' = [pc EXCEPT ![c] = "idle"]
            /\ page' = [page EXCEPT ![c] = 0]
            /\ UNCHANGED <<backoff, startObl, call>>
    /\ grant' = [grant EXCEPT ![c] = NoGrant]
    /\ UNCHANGED rlVars
    /\ UNCHANGED <<kind, lastRetryAfter, obl>>
    /\ UNCHANGED nonClientVars

\* A response with status st, headers h and (nx) a next page arrives, and the
\* caller's code handles it: feeds the limiter or not, then returns or goes on
\* to the next request, entering Wait again.
Receive(c, st, h, nx) ==
    /\ pc[c] = "sent"
    /\ nx => (kind[c] = "ListPage" /\ page[c] < MaxPages)
    /\ IF Feeds(kind[c], st)
       THEN UpdateFromHeaders(h)
       ELSE UNCHANGED <<backoffUntil, headerRemaining, headerReset, obl, lastRetryAfter>>
    /\ IF Continues(kind[c], st, nx, page[c])
       THEN /\ pc' = [pc EXCEPT ![c] = AfterRead(backoffUntil', now)]
            /\ backoff' = [backoff EXCEPT ![c] = Deadline(backoffUntil', now)]
            /\ startObl' = [startObl EXCEPT ![c] = obl']
            /\ call' = [call EXCEPT ![c] = NoCall]
            /\ page' = [page EXCEPT ![c] =
                          IF kind[c] = "GraphQL" THEN page[c] - 1 ELSE page[c] + 1]
       ELSE /\ pc' = [pc EXCEPT ![c] = "idle"]
            /\ page' = [page EXCEPT ![c] = 0]
            /\ call' = [call EXCEPT ![c].gotResp = TRUE,
                                    ![c].fed = Feeds(kind[c], st),
                                    ![c].errStatus = IsErrorStatus(st)]
            /\ UNCHANGED <<backoff, startObl>>
    /\ grant' = [grant EXCEPT ![c] = NoGrant]
    /\ UNCHANGED <<now, tokens, ctxDone, kind>>
    /\ UNCHANGED nonClientVars

\* Headers of the client-protocol specification.
ClientHeaders == { NoHeaders, [ra |-> <<"1">>, rem |-> <<>>, reset |-> <<>>] }

\* The client's calls, one at a time, of every kind.
NextClient ==
    \/ Tick
    \/ CancelCtx
    \/ WaitWake("c1")
    \/ WaitCancelled("c1")
    \/ WaitGranted("c1")
    \/ NetworkError("c1")
    \/ \E k \in Kinds : StartCall("c1", k)
    \/ \E st \in Statuses, h \in ClientHeaders, nx \in BOOLEAN : Receive("c1", st, h, nx)

Next == NextClient

Spec == Init /\ [][Next]_vars

\* The rate limiter under every header value and concurrent callers: calls
\* through DoREST only.
NextLimiter ==
    \/ Tick
    \/ CancelCtx
    \/ \E c \in Callers : WaitWake(c)
    \/ \E c \in Callers : WaitCancelled(c)
    \/ \E c \in Callers : WaitGranted(c)
    \/ \E c \in Callers : NetworkError(c)
    \/ \E c \in Callers : StartCall(c, "DoREST")
    \/ \E c \in Callers, h \in Headers : Receive(c, 200, h, FALSE)

NextRL == NextLimiter

\* UpdateFromHeaders under every header value, at every time.
NextFeed ==
    \/ Tick
    \/ \E h \in FedHeaders : FeedHeaders(h)

SpecFeed == Init /\ [][NextFeed]_vars

SpecRL == Init /\ [][NextRL]_vars

\* --------------------------------------------------------- paginated calls

\* fetchAllPages: the page asked for after a response that names a next page.
NextRequest_Increment(cur, nextPage) == cur + 1
NextRequest(cur, nextPage) == nextPage

\* A paginated call (ListProjects, ListPipelines, ...) begins:
\* fetchAllPages sets page := 1 and calls fetchPage(page).
ListBegin ==
    /\ fap.pc \in {"idle", "returned"}
    /\ fap' = [pc |-> "wait", page |-> 1, waits |-> 0, requested |-> <<>>,
               answers |-> <<>>, all |-> <<>>, err |-> "none"]
    /\ UNCHANGED nonPagesVars

\* fetchPage: c.rateLimiter.Wait(ctx); a failed Wait is returned through
\* fetchAllPages without any request.
PageWait(ok) ==
    /\ fap.pc = "wait"
    /\ fap' = IF ok
              THEN [fap EXCEPT !.pc = "request", !.waits = @ + 1]
              ELSE [fap EXCEPT !.pc = "returned", !.err = "rate limiter"]
    /\ UNCHANGED nonPagesVars

\* fetchPage: the request for fap.page and its answer: an error, no response
\* and no error, or a page that names the next page (0: none); then
\* fetchAllPages returns or goes on with the page named.
PageAnswer(answer, nextPage) ==
    /\ fap.pc = "request"
    /\ answer # "page" => nextPage = 0
    /\ Len(fap.requested) + 1 = MaxFetches => nextPage = 0
    /\ LET asked == Append(fap.requested, fap.page)
           got   == Append(fap.answers, [answer |-> answer, nextPage |-> nextPage])
       IN  fap' =
             IF answer = "error"
             THEN [fap EXCEPT !.pc = "returned", !.err = "request",
                              !.requested = asked, !.answers = got]
             ELSE IF answer = "nil" \/ nextPage = 0
             THEN [fap EXCEPT !.pc = "returned", !.requested = asked, !.answers = got,
                              !.all = IF answer = "page" THEN Append(@, fap.page) ELSE @]
             ELSE [fap EXCEPT !.pc = "wait", !.requested = asked, !.answers = got,
                              !.all = Append(@, fap.page),
                              !.page = NextRequest(fap.page, nextPage)]
    /\ UNCHANGED nonPagesVars

NextPages ==
    \/ ListBegin
    \/ \E ok \in BOOLEAN : PageWait(ok)
    \/ \E answer \in {"page", "error", "nil"}, nextPage \in 0..MaxNextPage :
          PageAnswer(answer, nextPage)

SpecPages == Init /\ [][NextPages]_vars

\* --------------------------------------------------------------- scheduler

\* Scheduler.Start: derive the cancellable context, launch one goroutine per
\* task (wg.Add(1) each).
Start ==
    /\ ~crashed
    /\ ~started
    /\ started' = TRUE
    /\ wg' = Cardinality(tasks)
    /\ wpc' = [t \in Tasks |-> IF t \in tasks THEN "start" ELSE "none"]
    /\ UNCHANGED <<tasks, cancelled, ticks, runs, lastResult, stopPc, crashed>>

\* Start, called on a scheduler of its own.
SchedStart ==
    /\ Start
    /\ UNCHANGED nonSchedVars

\* Task.Run: "Run immediately on start": t.execute(ctx) calls RunFunc.
WorkerFirstRun(t) ==
    /\ ~crashed
    /\ wpc[t] = "start"
    /\ wpc' = [wpc EXCEPT ![t] = "exec"]
    /\ runs' = [runs EXCEPT ![t] = runs[t] + 1]
    /\ UNCHANGED <<tasks, started, cancelled, wg, ticks, lastResult, stopPc, crashed>>
    /\ UNCHANGED nonSchedVars

\* Where the worker goes when RunFunc returns r ("ok" or "err"): execute logs
\* the outcome and returns to Run, which (creates its ticker and) selects.
AfterRunFunc_ExitOnError(r) == IF r = "err" THEN "done" ELSE "select"
AfterRunFunc(r) == "select"

\* Task.execute: RunFunc returns nil or an error.
RunFuncReturn(t, r) ==
    /\ ~crashed
    /\ wpc[t] = "exec"
    /\ lastResult' = [lastResult EXCEPT ![t] = r]
    /\ wpc' = [wpc EXCEPT ![t] = AfterRunFunc(r)]
    /\ wg' = IF AfterRunFunc(r) = "done" THEN wg - 1 ELSE wg
    /\ UNCHANGED <<tasks, started, cancelled, ticks, runs, stopPc, crashed>>
    /\ UNCHANGED nonSchedVars

\* Task.execute: RunFunc panics. Neither execute, Run nor the goroutine
\* started by Scheduler.Start defers a recover: the panic unwinds the
\* goroutine and the Go runtime ends the process.
RunFuncPanic(t) ==
    /\ ~crashed
    /\ wpc[t] = "exec"
    /\ lastResult' = [lastResult EXCEPT ![t] = "panic"]
    /\ crashed' = TRUE
    /\ UNCHANGED <<tasks, started, cancelled, wg, wpc, ticks, runs, stopPc>>
    /\ UNCHANGED nonSchedVars

\* The worker's ticker exists from the return of the first execute until Run
\* returns (defer ticker.Stop()).
TickerRunning(t) == wpc[t] = "select" \/ (wpc[t] = "exec" /\ runs[t] >= 2)

\* time.Ticker: an interval elapses; the tick is queued unless one is pending
\* already (a slow receiver's ticks are dropped).
TickerFire(t) ==
    /\ ~crashed
    /\ TickerRunning(t)
    /\ ticks[t] = 0
    /\ ticks' = [ticks EXCEPT ![t] = 1]
    /\ UNCHANGED <<tasks, started, cancelled, wg, wpc, runs, lastResult, stopPc, crashed>>
    /\ UNCHANGED nonSchedVars

\* Task.Run: select { case <-ticker.C: t.execute(ctx) }.
SelectTick(t) ==
    /\ ~crashed
    /\ wpc[t] = "select"
    /\ ticks[t] = 1
    /\ runs[t] < MaxRuns
    /\ ticks' = [ticks EXCEPT ![t] = 0]
    /\ wpc' = [wpc EXCEPT ![t] = "exec"]
    /\ runs' = [runs EXCEPT ![t] = runs[t] + 1]
    /\ UNCHANGED <<tasks, started, cancelled, wg, lastResult, stopPc, crashed>>
    /\ UNCHANGED nonSchedVars

\* Task.Run: select { case <-ctx.Done(): return }; then ticker.Stop() and
\* wg.Done() run as deferred.
SelectDone(t) ==
    /\ ~crashed
    /\ wpc[t] = "select"
    /\ cancelled
    /\ wpc' = [wpc EXCEPT ![t] = "done"]
    /\ ticks' = [ticks EXCEPT ![t] = 0]
    /\ wg' = wg - 1
    /\ UNCHANGED <<tasks, started, cancelled, runs, lastResult, stopPc, crashed>>
    /\ UNCHANGED nonSchedVars

\* The context given to Start is cancelled (the process was signalled).
ParentCancel ==
    /\ ~crashed
    /\ ~cancelled
    /\ cancelled' = TRUE
    /\ UNCHANGED <<tasks, started, wg, wpc, ticks, runs, lastResult, stopPc, crashed>>
    /\ UNCHANGED nonSchedVars

\* Scheduler.Stop: s.cancel(), then s.wg.Wait().
Stop ==
    /\ ~crashed
    /\ started
    /\ stopPc = "none"
    /\ cancelled' = TRUE
    /\ stopPc' = "waiting"
    /\ UNCHANGED <<tasks, started, wg, wpc, ticks, runs, lastResult, crashed>>

\* Stop, called on a scheduler of its own.
StopCall ==
    /\ Stop
    /\ UNCHANGED nonSchedVars

\* When s.wg.Wait() lets Stop go on.
WaitGroupDone_NoWait(n) == TRUE
WaitGroupDone(n) == n = 0

\* Scheduler.Stop: s.wg.Wait() returns, and Stop returns.
StopWaited ==
    /\ ~crashed
    /\ stopPc = "waiting"
    /\ WaitGroupDone(wg)
    /\ stopPc' = "returned"
    /\ UNCHANGED <<tasks, started, cancelled, wg, wpc, ticks, runs, lastResult, crashed>>

\* Stop returning, on a scheduler of its own.
StopReturn ==
    /\ StopWaited
    /\ UNCHANGED nonSchedVars

NextScheduler ==
    \/ SchedStart
    \/ ParentCancel
    \/ StopCall
    \/ StopReturn
    \/ \E t \in Tasks : WorkerFirstRun(t)
    \/ \E t \in Tasks, r \in {"ok", "err"} : RunFuncReturn(t, r)
    \/ \E t \in Tasks : RunFuncPanic(t)
    \/ \E t \in Tasks : TickerFire(t)
    \/ \E t \in Tasks : SelectTick(t)
    \/ \E t \in Tasks : SelectDone(t)

NextSched == NextScheduler

SpecSched == Init /\ [][NextSched]_vars

\* ----------------------------------------------------- pipelines collector

\* The sources GitLab reports, the empty string, and strings GitLab does
\* not report (unknown, or differing from a handled one in case, by a
\* trailing blank or by a suffix).
Sources ==
    {"push", "web", "trigger", "schedule", "api", "external", "pipeline", "chat",
     "webide", "merge_request_event", "external_pull_request_event",
     "parent_pipeline", "ondemand_dast_scan", "ondemand_dast_validation",
     "security_orchestration_policy", "container_registry_push",
     "", "unknown", "Schedule", "TRIGGER", "trigger ", "merge_request",
     "parent_pipeline_event", "child"}

\* pipelineKind.
pipelineKind_TriggerOnly(source) ==
    CASE source = "parent_pipeline" -> "child"
      [] source = "trigger" -> "trigger"
      [] source = "merge_request_event" -> "merge_request"
      [] source = "schedule" -> "schedule"
      [] OTHER -> "branch"
pipelineKind(source) ==
    CASE source = "parent_pipeline" -> "child"
      [] source \in {"trigger", "pipeline"} -> "trigger"
      [] source = "merge_request_event" -> "merge_request"
      [] source = "schedule" -> "schedule"
      [] OTHER -> "branch"

\* pipelineKind applied to the Source of one more pipeline.
DeriveKind(source) ==
    /\ Cardinality(derived) < MaxSources
    /\ <<source, pipelineKind(source)>> \notin derived
    /\ derived' = derived \cup {<<source, pipelineKind(source)>>}
    /\ UNCHANGED nonKindVars

NextKind == \E source \in Sources : DeriveKind(source)

SpecKind == Init /\ [][NextKind]_vars

\* fmt.Sscanf(s, "%f", &cov) on a whole number: the leading digits are the
\* value, and no digit at all is an error.
RECURSIVE ScanDigits(_, _, _)
ScanDigits(s, acc, seen) ==
    IF s = <<>> \/ ~IsDigit(Head(s))
    THEN [ok |-> seen, val |-> acc]
    ELSE ScanDigits(Tail(s), acc * 10 + DigitVal(Head(s)), TRUE)

Sscanf(s) == ScanDigits(s, 0, FALSE)

\* HistogramVec.WithLabelValues(l).Observe(v): count and sum of the series.
Observe(h, l, v) ==
    IF l \in DOMAIN h
    THEN [h EXCEPT ![l] = [count |-> @.count + 1, sum |-> @.sum + v]]
    ELSE (l :> [count |-> 1, sum |-> v]) @@ h

\* GaugeVec.WithLabelValues(l).Set(v).
SetGauge(g, l, v) == IF l \in DOMAIN g THEN [g EXCEPT ![l] = v] ELSE (l :> v) @@ g

\* CounterVec.WithLabelValues(l).Inc().
Inc(cn, l) == IF l \in DOMAIN cn THEN [cn EXCEPT ![l] = @ + 1] ELSE (l :> 1) @@ cn

\* recordPipeline: one pipeline applied to the metric vectors, under c.mu.
recordPipeline(m, project, p) ==
    LET k  == pipelineKind(p.source)
        l5 == <<project, p.ref, k, p.source, p.status>>
        l4 == <<project, p.ref, k, p.source>>
        l3 == <<project, p.ref, k>>
        cov == Sscanf(p.coverage)
    IN  [duration |-> IF p.duration > 0 THEN Observe(m.duration, l5, p.duration)
                      ELSE m.duration,
         queuedDuration |-> IF p.queued > 0 THEN Observe(m.queuedDuration, l4, p.queued)
                            ELSE m.queuedDuration,
         status |-> SetGauge(m.status, l5, 1),
         runCount |-> Inc(m.runCount, l4),
         coverage |-> IF p.coverage # <<>> /\ cov.ok THEN SetGauge(m.coverage, l3, cov.val)
                      ELSE m.coverage,
         id |-> SetGauge(m.id, l3, p.id),
         createdTS |-> IF p.created # 0 THEN SetGauge(m.createdTS, l3, p.created)
                       ELSE m.createdTS]

\* GitLab's pipelines change.
GitLabChange ==
    /\ \E a \in ApiStates : a # api /\ api' = a
    /\ streak' = 0
    /\ UNCHANGED <<pm, ppc, proj, todo, cycles, lastComplete, scraped, fetched>>
    /\ UNCHANGED nonPipeVars

\* Run begins: it copies c.projects and turns to the first project.
PipeRunBegin ==
    /\ ppc = "idle"
    /\ cycles < MaxCycles
    /\ cycles' = cycles + 1
    /\ ppc' = "list"
    /\ proj' = 1
    /\ fetched' = NotFetched
    /\ UNCHANGED <<api, pm, todo, lastComplete, scraped, streak>>
    /\ UNCHANGED nonPipeVars

\* The Run that fetched f was answered every call, and fetched the pipelines
\* GitLab has now.
WholeRun(f) ==
    \A p \in DOMAIN f :
        /\ f[p].state = "listed"
        /\ f[p].got = { api[p][i] : i \in 1..Len(api[p]) }

\* Where Run's loop goes once collectProject has returned, with an error
\* (failed) or nil, for project number n: the error is logged and the loop
\* goes on.
AfterProject_AbortOnError(n, failed) ==
    IF n < Len(PipeProjects) /\ ~failed THEN n + 1 ELSE 0
AfterProject(n, failed) ==
    IF n < Len(PipeProjects) THEN n + 1 ELSE 0

\* Run's loop once collectProject has returned for project number proj, the
\* metric vectors being m and what was fetched f: the next project, or Run
\* returns nil.
NextProject(m, f, failed) ==
    IF AfterProject(proj, failed) # 0
    THEN /\ ppc' = "list"
         /\ proj' = AfterProject(proj, failed)
         /\ UNCHANGED <<lastComplete, streak>>
    ELSE /\ ppc' = "idle"
         /\ proj' = 0
         /\ lastComplete' = m
         /\ streak' = IF WholeRun(f) THEN Min(streak + 1, MaxCycles) ELSE 0

\* collectProject: ListProjectPipelines answers (ok) or fails.
PipeList(ok) ==
    /\ ppc = "list"
    /\ LET f == [fetched EXCEPT ![PipeProjects[proj]].state =
                                    IF ok THEN "listed" ELSE "failed"]
       IN  /\ fetched' = f
           /\ IF ok /\ api[PipeProjects[proj]] # <<>>
              THEN /\ todo' = api[PipeProjects[proj]]
                   /\ ppc' = "get"
                   /\ UNCHANGED <<proj, lastComplete, streak>>
              ELSE /\ todo' = <<>>
                   /\ NextProject(pm, f, ~ok)
    /\ UNCHANGED <<api, pm, cycles, scraped>>
    /\ UNCHANGED nonPipeVars

\* collectProject's loop body: GetPipeline answers (ok), and recordPipeline
\* applies the pipeline, or fails, and the pipeline is skipped.
PipeGet(ok) ==
    /\ ppc = "get"
    /\ LET m == IF ok THEN recordPipeline(pm, PipeProjects[proj], Head(todo)) ELSE pm
           f == IF ok THEN [fetched EXCEPT ![PipeProjects[proj]].got = @ \cup {Head(todo)}]
                ELSE fetched
       IN  /\ pm' = m
           /\ fetched' = f
           /\ todo' = Tail(todo)
           /\ IF Tail(todo) # <<>>
              THEN UNCHANGED <<ppc, proj, lastComplete, streak>>
              ELSE NextProject(m, f, FALSE)
    /\ UNCHANGED <<api, cycles, scraped>>
    /\ UNCHANGED nonPipeVars

\* Collect: a scrape reads every vector under c.mu.RLock.
PipeCollect ==
    /\ scraped' = [taken |-> TRUE, values |-> pm, complete |-> lastComplete]
    /\ UNCHANGED <<api, pm, ppc, proj, todo, cycles, lastComplete, fetched, streak>>
    /\ UNCHANGED nonPipeVars

NextPipe ==
    \/ GitLabChange
    \/ PipeRunBegin
    \/ \E ok \in BOOLEAN : PipeList(ok)
    \/ \E ok \in BOOLEAN : PipeGet(ok)
    \/ PipeCollect

SpecPipe == Init /\ [][NextPipe]_vars

\* ---------------------------------------------------------------- exporter

\* discoverProjects: `if _, ok := seen[path]; !ok { projects = append(...) }`.
AddPath_Always(ps, x) == Append(ps, x)
AddPath(ps, x) == IF \E i \in 1..Len(ps) : ps[i] = x THEN ps ELSE Append(ps, x)

\* The same for every path of a list, in its order.
RECURSIVE AddAll(_, _)
AddAll(ps, xs) == IF xs = <<>> THEN ps ELSE AddAll(AddPath(ps, Head(xs)), Tail(xs))

\* discoverProjects, the loop over the pages of one wildcard: every page that
\* is returned is added; a failed request ends the loop as the last page does.
RECURSIVE ExpandPages(_, _)
ExpandPages(ps, pages) ==
    IF pages = <<>> THEN ps ELSE ExpandPages(AddAll(ps, Head(pages)), Tail(pages))

\* discoverProjects, the body of the loop over cfg.Wildcards, for a wildcard
\* whose listing GitLab answers with l: when a request fails, a warning is
\* logged and the page loop is left, projects keeping what it holds.
AfterWildcard_ResetOnError(ps, l) ==
    IF l.ends = "error" THEN <<>> ELSE ExpandPages(ps, l.pages)
AfterWildcard(ps, l) == ExpandPages(ps, l.pages)

\* discoverProjects, the loop over cfg.Wildcards.
RECURSIVE ExpandWildcards(_, _)
ExpandWildcards(ps, ls) ==
    IF ls = <<>> THEN ps
    ELSE ExpandWildcards(AfterWildcard(ps, Head(ls)), Tail(ls))

\* discoverProjects(cfg) when GitLab answers the wildcards' listings with ls.
discoverProjects(explicit, ls) ==
    LET ps == ExpandWildcards(AddAll(<<>>, explicit), ls)
    IN  [err |-> Len(ps) = 0, projects |-> ps]

\* registerCollectors: the `enabled` field of the definition of collector k.
DefEnabled(k, c, f) ==
    CASE k = "dora" -> c.enabled[k] /\ ~f.isNil /\ f.hasDORA
      [] k = "value_stream" -> c.enabled[k] /\ ~f.isNil /\ f.hasValueStream
      [] k = "code_review" -> c.enabled[k] /\ ~f.isNil /\ f.hasCodeReview
      [] OTHER -> c.enabled[k]

\* Another step of NewExporter / Run, written to the log.
Logged(step) == elog' = Append(elog, step)

\* NewExporter, 1: gitlabclient.New.
ExpNewClient ==
    /\ ~crashed
    /\ epc = "new"
    /\ epc' = "store"
    /\ Logged("client")
    /\ UNCHANGED <<cfg, listings, instance, features, store, projects,
                   collectorEnabled, registry, srv, ready>>
    /\ UNCHANGED <<schedVars, nonExpVars>>

\* NewExporter, 2: the store: Redis when cfg.Redis.URL is set (NewRedisStore
\* succeeds, ok, or fails and NewExporter returns the error), else in memory.
ExpChooseStore(ok) ==
    /\ ~crashed
    /\ epc = "store"
    /\ cfg.redis \/ ok
    /\ IF cfg.redis /\ ~ok
       THEN /\ epc' = "failed"
            /\ Logged("storeErr")
            /\ UNCHANGED store
       ELSE /\ epc' = "tier"
            /\ Logged("store")
            /\ store' = [kind |-> IF cfg.redis THEN "redis" ELSE "memory", closed |-> FALSE]
    /\ UNCHANGED <<cfg, listings, instance, features, projects,
                   collectorEnabled, registry, srv, ready>>
    /\ UNCHANGED <<schedVars, nonExpVars>>

\* NewExporter, 3 ("Tier detection"): features := client.Features().
ExpTierDetection ==
    /\ ~crashed
    /\ epc = "tier"
    /\ epc' = "discover"
    /\ Logged(IF features.isNil THEN "noFeatures" ELSE "features")
    /\ UNCHANGED <<cfg, listings, instance, features, store, projects,
                   collectorEnabled, registry, srv, ready>>
    /\ UNCHANGED <<schedVars, nonExpVars>>

\* NewExporter, 4: discoverProjects, GitLab answering the listing of each
\* configured wildcard (ls).
ExpDiscover ==
    /\ ~crashed
    /\ epc = "discover"
    /\ \E ls \in [1..cfg.wildcards -> Listings] :
          LET r == discoverProjects(cfg.projects, ls)
          IN  /\ listings' = ls
              /\ projects' = r.projects
              /\ epc' = IF r.err THEN "failed" ELSE "register"
              /\ Logged(IF r.err THEN "discoverErr" ELSE "discover")
    /\ UNCHANGED <<cfg, instance, features, store,
                   collectorEnabled, registry, srv, ready>>
    /\ UNCHANGED <<schedVars, nonExpVars>>

\* NewExporter, 5: NewRegistry, NewScheduler, registerCollectors: the gauge is
\* set for every collector; the enabled ones are registered and given a task.
ExpRegister ==
    /\ ~crashed
    /\ epc = "register"
    /\ epc' = "server"
    /\ collectorEnabled' =
          [k \in KindSet |-> IF DefEnabled(k, cfg, features) THEN 1 ELSE 0]
    /\ registry' = SelectSeq(CollectorKinds, LAMBDA k : DefEnabled(k, cfg, features))
    /\ tasks' = { k \in KindSet : DefEnabled(k, cfg, features) }
    /\ Logged("register")
    /\ UNCHANGED <<cfg, listings, instance, features, store, projects, srv, ready>>
    /\ UNCHANGED <<started, cancelled, wg, wpc, ticks, runs, lastResult, stopPc, crashed>>
    /\ UNCHANGED nonExpVars

\* NewExporter, 6: NewServer; NewExporter returns the exporter.
ExpNewServer ==
    /\ ~crashed
    /\ epc = "server"
    /\ epc' = "built"
    /\ srv' = "created"
    /\ Logged("server")
    /\ UNCHANGED <<cfg, listings, instance, features, store, projects,
                   collectorEnabled, registry, ready>>
    /\ UNCHANGED <<schedVars, nonExpVars>>

\* NewExporter, step by step.
NextStartup ==
    \/ ExpNewClient
    \/ \E ok \in BOOLEAN : ExpChooseStore(ok)
    \/ ExpTierDetection
    \/ ExpDiscover
    \/ ExpRegister
    \/ ExpNewServer

\* NewExporter for every configuration of the collectors and every instance.
InitStartup ==
    /\ InitClient /\ NewScheduler({}) /\ InitPipe /\ InitMR /\ InitStore
    /\ InitConf(DefaultSecrets) /\ InitHook("")
    /\ InitTier /\ InitKind /\ InitFeed
    /\ InitPages /\ InitDora(<<"p1">>, <<>>, TRUE) /\ InitChild /\ InitChanges /\ NewTaskQueue /\ InitLoad /\ InitRepo
    /\ \E en \in SUBSET Tasks, r \in BOOLEAN, ps \in {<<>>, <<"a">>},
          v \in BOOLEAN, d \in BOOLEAN :
          InitExp(Config(en, r, ps, 0), <<>>, Instance(v, d))

SpecStartup == InitStartup /\ [][NextStartup]_vars

\* NewExporter up to the resolution of the projects.
NextResolve ==
    \/ ExpNewClient
    \/ \E ok \in BOOLEAN : ExpChooseStore(ok)
    \/ ExpTierDetection
    \/ ExpDiscover

\* NewExporter for every list of explicit projects and number of wildcards.
InitResolve ==
    /\ InitClient /\ NewScheduler({}) /\ InitPipe /\ InitMR /\ InitStore
    /\ InitConf(DefaultSecrets) /\ InitHook("")
    /\ InitTier /\ InitKind /\ InitFeed
    /\ InitPages /\ InitDora(<<"p1">>, <<>>, TRUE) /\ InitChild /\ InitChanges /\ NewTaskQueue /\ InitLoad /\ InitRepo
    /\ \E ps \in ProjectLists, nw \in 0..MaxWildcards :
          InitExp(Config(Tasks, FALSE, ps, nw), <<>>, UltimateInstance)

SpecResolve == InitResolve /\ [][NextResolve]_vars

\* Exporter.Run: e.scheduler.Start(ctx).
ExpStartScheduler ==
    /\ epc = "built"
    /\ Start
    /\ epc' = "startServer"
    /\ Logged("schedulerStart")
    /\ UNCHANGED <<cfg, listings, instance, features, store, projects,
                   collectorEnabled, registry, srv, ready>>
    /\ UNCHANGED nonExpVars

\* Exporter.Run: e.server.Start(ctx): the listener binds (ok), or
\* ListenAndServe fails at once and Run returns the error.
ExpStartServer(ok) ==
    /\ ~crashed
    /\ epc = "startServer"
    /\ srv' = IF ok THEN "up" ELSE "failed"
    /\ epc' = IF ok THEN "setReady" ELSE "returnedErr"
    /\ Logged(IF ok THEN "serverStart" ELSE "serverStartErr")
    /\ UNCHANGED <<cfg, listings, instance, features, store, projects,
                   collectorEnabled, registry, ready>>
    /\ UNCHANGED <<schedVars, nonExpVars>>

\* Exporter.Run: e.server.SetReady(true); then Run blocks on ctx.Done().
ExpSetReady ==
    /\ ~crashed
    /\ epc = "setReady"
    /\ ready' = TRUE
    /\ epc' = "serving"
    /\ Logged("ready")
    /\ UNCHANGED <<cfg, listings, instance, features, store, projects,
                   collectorEnabled, registry, srv>>
    /\ UNCHANGED <<schedVars, nonExpVars>>

\* Exporter.Run: <-ctx.Done() returns; e.server.SetReady(false).
ExpShutdownBegins ==
    /\ ~crashed
    /\ epc = "serving"
    /\ cancelled
    /\ ready' = FALSE
    /\ epc' = "stopServer"
    /\ Logged("notReady")
    /\ UNCHANGED <<cfg, listings, instance, features, store, projects,
                   collectorEnabled, registry, srv>>
    /\ UNCHANGED <<schedVars, nonExpVars>>

\* Where Run goes after e.server.Stop(shutdownCtx) returned (ok: nil): an
\* error is logged only.
AfterServerStop_ReturnOnError(ok) == IF ok THEN "stopScheduler" ELSE "returned"
AfterServerStop(ok) == "stopScheduler"

\* Exporter.Run: e.server.Stop(shutdownCtx), shutdownCtx ending after 15 s:
\* Shutdown returns nil, or an error (the grace period ran out).
ExpStopServer(ok) ==
    /\ ~crashed
    /\ epc = "stopServer"
    /\ srv' = "stopped"
    /\ epc' = AfterServerStop(ok)
    /\ Logged(IF ok THEN "serverStop" ELSE "serverStopErr")
    /\ UNCHANGED <<cfg, listings, instance, features, store, projects,
                   collectorEnabled, registry, ready>>
    /\ UNCHANGED <<schedVars, nonExpVars>>

\* Exporter.Run: e.scheduler.Stop() is called.
ExpStopScheduler ==
    /\ epc = "stopScheduler"
    /\ Stop
    /\ epc' = "awaitWorkers"
    /\ Logged("schedulerCancel")
    /\ UNCHANGED <<cfg, listings, instance, features, store, projects,
                   collectorEnabled, registry, srv, ready>>
    /\ UNCHANGED nonExpVars

\* Exporter.Run: e.scheduler.Stop() returns.
ExpWorkersAwaited ==
    /\ epc = "awaitWorkers"
    /\ StopWaited
    /\ epc' = "closeStore"
    /\ Logged("schedulerStopped")
    /\ UNCHANGED <<cfg, listings, instance, features, store, projects,
                   collectorEnabled, registry, srv, ready>>
    /\ UNCHANGED nonExpVars

\* Exporter.Run: e.store.Close() returns nil (ok) or an error, which is
\* logged; Run returns nil.
ExpCloseStore(ok) ==
    /\ ~crashed
    /\ epc = "closeStore"
    /\ store' = [store EXCEPT !.closed = TRUE]
    /\ epc' = "returned"
    /\ Logged(IF ok THEN "storeClose" ELSE "storeCloseErr")
    /\ UNCHANGED <<cfg, listings, instance, features, projects,
                   collectorEnabled, registry, srv, ready>>
    /\ UNCHANGED <<schedVars, nonExpVars>>

\* main: NewExporter, then Run, under a context that a signal cancels; the
\* scheduler's workers run beside it.
NextExporter ==
    \/ ExpNewClient
    \/ \E ok \in BOOLEAN : ExpChooseStore(ok)
    \/ ExpTierDetection
    \/ ExpDiscover
    \/ ExpRegister
    \/ ExpNewServer
    \/ ExpStartScheduler
    \/ \E ok \in BOOLEAN : ExpStartServer(ok)
    \/ ExpSetReady
    \/ ExpShutdownBegins
    \/ \E ok \in BOOLEAN : ExpStopServer(ok)
    \/ ExpStopScheduler
    \/ ExpWorkersAwaited
    \/ \E ok \in BOOLEAN : ExpCloseStore(ok)
    \/ ParentCancel
    \/ \E t \in Tasks : WorkerFirstRun(t)
    \/ \E t \in Tasks, r \in {"ok", "err"} : RunFuncReturn(t, r)
    \/ \E t \in Tasks : RunFuncPanic(t)
    \/ \E t \in Tasks : TickerFire(t)
    \/ \E t \in Tasks : SelectTick(t)
    \/ \E t \in Tasks : SelectDone(t)

\* The exporter with every modelled collector enabled in the configuration,
\* a Redis store or the in-memory one.
InitExporter ==
    /\ InitClient /\ NewScheduler({}) /\ InitPipe /\ InitMR /\ InitStore
    /\ InitConf(DefaultSecrets) /\ InitHook("")
    /\ InitTier /\ InitKind /\ InitFeed
    /\ InitPages /\ InitDora(<<"p1">>, <<>>, TRUE) /\ InitChild /\ InitChanges /\ NewTaskQueue /\ InitLoad /\ InitRepo
    /\ \E r \in BOOLEAN : InitExp(Config(Tasks, r, <<"a">>, 0), <<>>, UltimateInstance)

SpecExporter == InitExporter /\ [][NextExporter]_vars

\* ------------------------------------------------------------------ /config

\* handleConfig's redaction string, and redactString's.
Str_REDACTED ==
    <<"*", "*", "*", "R", "E", "D", "A", "C", "T", "E", "D", "*", "*", "*">>
Str_stars == <<"*", "*", "*", "*">>

\* json.Encoder.Encode of the configuration, field after field: each key
\* (one symbol here) and the characters of its string value.
Encode(c) ==
    <<"{", "level:">> \o c.level \o <<"secret_token:">> \o c.secret
      \o <<"redis.url:">> \o c.redisURL \o <<"gitlab.url:">> \o c.gitlabURL
      \o <<"token:">> \o c.token \o <<"branches.regexp:">> \o c.branches \o <<"}">>

\* handleConfig: the copy of the configuration with the token replaced, and
\* the Redis URL and the webhook secret replaced when they are set.
HandlerRedacted_TokenKept(c) ==
    [c EXCEPT !.redisURL = IF c.redisURL # <<>> THEN Str_REDACTED ELSE c.redisURL,
              !.secret = IF c.secret # <<>> THEN Str_REDACTED ELSE c.secret]
HandlerRedacted(c) ==
    [c EXCEPT !.token = Str_REDACTED,
              !.redisURL = IF c.redisURL # <<>> THEN Str_REDACTED ELSE c.redisURL,
              !.secret = IF c.secret # <<>> THEN Str_REDACTED ELSE c.secret]

\* redactString.
redactString(str) == IF str = <<>> THEN <<>> ELSE Str_stars

\* Config.Redacted.
Redacted(c) ==
    [c EXCEPT !.token = redactString(c.token),
              !.secret = redactString(c.secret),
              !.redisURL = redactString(c.redisURL)]

\* Server.handleConfig: GET /config.
HandleConfig ==
    /\ cresp' = [via |-> "handleConfig", body |-> Encode(HandlerRedacted(conf)),
                 fields |-> HandlerRedacted(conf)]
    /\ UNCHANGED conf
    /\ UNCHANGED nonConfVars

\* Config.RedactedJSON.
RedactedJSON ==
    /\ cresp' = [via |-> "RedactedJSON", body |-> Encode(Redacted(conf)),
                 fields |-> Redacted(conf)]
    /\ UNCHANGED conf
    /\ UNCHANGED nonConfVars

NextConfig ==
    \/ HandleConfig
    \/ RedactedJSON

\* The server with every configuration of the secrets.
InitConfig ==
    /\ InitClient /\ InitSched /\ InitPipe /\ InitMR /\ InitStore
    /\ InitExp(DefaultConfig, <<>>, UltimateInstance)
    /\ \E sc \in SecretConfigs : InitConf(sc)
    /\ InitHook("")
    /\ InitTier /\ InitKind /\ InitFeed
    /\ InitPages /\ InitDora(<<"p1">>, <<>>, TRUE) /\ InitChild /\ InitChanges /\ NewTaskQueue /\ InitLoad /\ InitRepo

SpecConfig == InitConfig /\ [][NextConfig]_vars

\* ---------------------------------------------------------- tier detection

TierFree == 0
TierPremium == 1
TierUltimate == 2

\* What a request of Detect can meet: no response at all (a network error),
\* or a response with one of these status codes.
NoResponse == 0
ProbeAnswers == {NoResponse, 200, 400, 403, 404, 422, 500}
Versions == {"16.0.0", "17.1.0"}

\* probeDORA: the endpoint exists when it answers 404, 200, 400 or 422.
probeDORA_Not403(answer) ==
    IF answer = NoResponse THEN FALSE
    ELSE answer # 403
probeDORA(answer) ==
    IF answer = NoResponse THEN FALSE
    ELSE IF answer = 403 THEN FALSE
    ELSE answer \in {404, 200, 400, 422}

\* probeEndpoint: any response other than 403.
probeEndpoint(answer) ==
    IF answer = NoResponse THEN FALSE
    ELSE answer # 403

\* deriveTier: the highest tier supported by the detected features.
deriveTier_PremiumFirst(f) ==
    IF f.HasValueStream \/ f.HasMRAnalytics \/ f.HasCodeReview THEN TierPremium
    ELSE IF f.HasDORA THEN TierUltimate
    ELSE TierFree
deriveTier(f) ==
    IF f.HasDORA THEN TierUltimate
    ELSE IF f.HasValueStream \/ f.HasMRAnalytics \/ f.HasCodeReview THEN TierPremium
    ELSE TierFree

\* Detect, step 1: checkVersion; an error or a status other than 200 ends
\* the detection with an error.
DetectVersion(answer, version) ==
    /\ tpc = "checkVersion"
    /\ probed' = Append(probed, answer)
    /\ IF answer = 200
       THEN /\ detected' = [detected EXCEPT !.GitLabVersion = version]
            /\ tpc' = "probeDORA"
       ELSE /\ tpc' = "failed"
            /\ UNCHANGED detected
    /\ UNCHANGED nonTierVars

\* Detect, step 2: features.HasDORA = td.probeDORA(ctx).
DetectDORA(answer) ==
    /\ tpc = "probeDORA"
    /\ probed' = Append(probed, answer)
    /\ detected' = [detected EXCEPT !.HasDORA = probeDORA(answer)]
    /\ tpc' = "probeValueStream"
    /\ UNCHANGED nonTierVars

\* Detect, step 3: the three Premium probes, in order.
DetectValueStream(answer) ==
    /\ tpc = "probeValueStream"
    /\ probed' = Append(probed, answer)
    /\ detected' = [detected EXCEPT !.HasValueStream = probeEndpoint(answer)]
    /\ tpc' = "probeMRAnalytics"
    /\ UNCHANGED nonTierVars

DetectMRAnalytics(answer) ==
    /\ tpc = "probeMRAnalytics"
    /\ probed' = Append(probed, answer)
    /\ detected' = [detected EXCEPT !.HasMRAnalytics = probeEndpoint(answer)]
    /\ tpc' = "probeCodeReview"
    /\ UNCHANGED nonTierVars

DetectCodeReview(answer) ==
    /\ tpc = "probeCodeReview"
    /\ probed' = Append(probed, answer)
    /\ detected' = [detected EXCEPT !.HasCodeReview = probeEndpoint(answer)]
    /\ tpc' = "deriveTier"
    /\ UNCHANGED nonTierVars

\* Detect, step 4: features.Tier = td.deriveTier(features); return features.
DetectDerive ==
    /\ tpc = "deriveTier"
    /\ detected' = [detected EXCEPT !.Tier = deriveTier(detected)]
    /\ tpc' = "returned"
    /\ UNCHANGED probed
    /\ UNCHANGED nonTierVars

NextTier ==
    \/ \E answer \in {NoResponse, 200, 500}, version \in Versions :
          DetectVersion(answer, version)
    \/ \E answer \in ProbeAnswers : DetectDORA(answer)
    \/ \E answer \in ProbeAnswers : DetectValueStream(answer)
    \/ \E answer \in ProbeAnswers : DetectMRAnalytics(answer)
    \/ \E answer \in ProbeAnswers : DetectCodeReview(answer)
    \/ DetectDerive

SpecTier == Init /\ [][NextTier]_vars

\* ----------------------------------------------------------------- webhook

\* Requests: the method, the X-Gitlab-Token header ("" when absent), and the
\* body: one that cannot be read, one that is not JSON, or a JSON payload with
\* its object_kind and project.path_with_namespace ("" when missing).
HookMethods == {"POST", "GET"}
HookTokens == {"", "s3cr3t", "wrong"}
HookBodies == {"unreadable", "notjson", "json"}
HookKinds == {"pipeline", "merge_request", "push", ""}
HookPaths == {"", "g/p"}

\* ServeHTTP's token check: skipped when no secret is configured.
TokenOk_Always(secret, token) == TRUE
TokenOk(secret, token) == secret = "" \/ token = secret

\* ServeHTTP: the status written for the request, in the order of its checks.
HookStatus(h, method, token, body, path) ==
    IF method # "POST" THEN 405
    ELSE IF ~TokenOk(h.secretToken, token) THEN 403
    ELSE IF body # "json" THEN 400
    ELSE IF path = "" THEN 400
    ELSE 200

\* ServeHTTP: the callbacks invoked, with their argument.
HookCalls_AnyKind(h, status, objectKind, path) ==
    IF status # 200 THEN <<>>
    ELSE IF h.onPipelineEvent THEN << <<"onPipelineEvent", path>> >>
    ELSE IF h.onMREvent THEN << <<"onMREvent", path>> >>
    ELSE <<>>
HookCalls(h, status, objectKind, path) ==
    IF status # 200 THEN <<>>
    ELSE IF objectKind = "pipeline" /\ h.onPipelineEvent THEN << <<"onPipelineEvent", path>> >>
    ELSE IF objectKind = "merge_request" /\ h.onMREvent THEN << <<"onMREvent", path>> >>
    ELSE <<>>

\* WebhookHandler.SetOnPipelineEvent.
SetOnPipelineEvent ==
    /\ ~hook.onPipelineEvent
    /\ hook' = [hook EXCEPT !.onPipelineEvent = TRUE]
    /\ UNCHANGED hresp
    /\ UNCHANGED nonHookVars

\* WebhookHandler.SetOnMREvent.
SetOnMREvent ==
    /\ ~hook.onMREvent
    /\ hook' = [hook EXCEPT !.onMREvent = TRUE]
    /\ UNCHANGED hresp
    /\ UNCHANGED nonHookVars

\* WebhookHandler.ServeHTTP for one request.
ServeHTTP(method, token, body, objectKind, path) ==
    /\ body # "json" => (objectKind = "" /\ path = "")
    /\ LET st == HookStatus(hook, method, token, body, path)
       IN  hresp' = [taken |-> TRUE, handler |-> hook, method |-> method, token |-> token,
                     body |-> body, kind |-> objectKind, path |-> path, status |-> st,
                     calls |-> HookCalls(hook, st, objectKind, path)]
    /\ UNCHANGED hook
    /\ UNCHANGED nonHookVars

NextWebhook ==
    \/ SetOnPipelineEvent
    \/ SetOnMREvent
    \/ \E method \in HookMethods, token \in HookTokens, body \in HookBodies,
          objectKind \in HookKinds, path \in HookPaths :
          ServeHTTP(method, token, body, objectKind, path)

\* The handler with and without a configured secret.
InitWebhook ==
    /\ InitClient /\ InitSched /\ InitPipe /\ InitMR /\ InitStore
    /\ InitExp(DefaultConfig, <<>>, UltimateInstance)
    /\ InitConf(DefaultSecrets)
    /\ \E secret \in {"", "s3cr3t"} : InitHook(secret)
    /\ InitTier /\ InitKind /\ InitFeed
    /\ InitPages /\ InitDora(<<"p1">>, <<>>, TRUE) /\ InitChild /\ InitChanges /\ NewTaskQueue /\ InitLoad /\ InitRepo

SpecWebhook == InitWebhook /\ [][NextWebhook]_vars

\* ------------------------------------------------------------------ stores

\* m[k] = v, as a Go map assignment or a Redis SET does it.
Put(m, k, v) == IF k \in DOMAIN m THEN [m EXCEPT ![k] = v] ELSE (k :> v) @@ m

\* strconv.FormatInt(n, 10) for n >= 0.
RECURSIVE FormatInt(_)
FormatInt(n) ==
    IF n < 10 THEN <<DigitChars[n + 1]>>
    ELSE FormatInt(n \div 10) \o <<DigitChars[(n % 10) + 1]>>

\* t.Unix(): whole seconds since the epoch.
ToUnix(t) == t \div Second

\* The string RedisStore.SetLastUpdated stores for time t.
RedisValue(t) == FormatInt(ToUnix(t))

\* What RedisStore.GetLastUpdated returns for the stored string val.
RedisParse(val) ==
    LET r == Atoi(val)
    IN  IF r.ok THEN [t |-> Unix(r.val), err |-> FALSE]
        ELSE [t |-> ZeroTime, err |-> TRUE]

\* What MemoryStore.GetLastUpdated returns when the key is in the map (ok)
\* with value t, or is not.
MemLookup(ok, t) == IF ok THEN t ELSE ZeroTime

\* MemoryStore.SetLastUpdated(key, t).
MemSet(k, t) ==
    /\ memData' = Put(memData, k, t)
    /\ written' = [written EXCEPT !.memory = Put(@, k, t)]
    /\ sres' = [op |-> "set", store |-> "memory", key |-> k, t |-> ZeroTime,
                err |-> FALSE, failed |-> FALSE]
    /\ UNCHANGED redisData
    /\ UNCHANGED nonStoreVars

\* MemoryStore.GetLastUpdated(key).
MemGet(k) ==
    /\ sres' = [op |-> "get", store |-> "memory", key |-> k,
                t |-> MemLookup(k \in DOMAIN memData,
                                IF k \in DOMAIN memData THEN memData[k] ELSE ZeroTime),
                err |-> FALSE, failed |-> FALSE]
    /\ UNCHANGED <<memData, redisData, written>>
    /\ UNCHANGED nonStoreVars

\* RedisStore.SetLastUpdated(key, t): the SET succeeds (ok) or fails, and
\* the error is returned.
RedisSet(k, t, ok) ==
    /\ redisData' = IF ok THEN Put(redisData, k, RedisValue(t)) ELSE redisData
    /\ written' = IF ok THEN [written EXCEPT !.redis = Put(@, k, t)] ELSE written
    /\ sres' = [op |-> "set", store |-> "redis", key |-> k, t |-> ZeroTime,
                err |-> ~ok, failed |-> ~ok]
    /\ UNCHANGED memData
    /\ UNCHANGED nonStoreVars

\* RedisStore.GetLastUpdated(key): the GET fails (~ok), or answers redis.Nil
\* for a missing key, or the stored string, which is parsed.
RedisGet(k, ok) ==
    /\ sres' = IF ~ok
               THEN [op |-> "get", store |-> "redis", key |-> k, t |-> ZeroTime,
                     err |-> TRUE, failed |-> TRUE]
               ELSE IF k \notin DOMAIN redisData
               THEN [op |-> "get", store |-> "redis", key |-> k, t |-> ZeroTime,
                     err |-> FALSE, failed |-> FALSE]
               ELSE [op |-> "get", store |-> "redis", key |-> k,
                     t |-> RedisParse(redisData[k]).t,
                     err |-> RedisParse(redisData[k]).err, failed |-> FALSE]
    /\ UNCHANGED <<memData, redisData, written>>
    /\ UNCHANGED nonStoreVars

\* Strings another writer may leave under one of the keys in Redis.
ForeignValues == { <<"x">>, <<>>, <<"1">> }

\* Another user of the shared Redis server writes under one of the keys.
RedisForeignWrite(k, v) ==
    /\ redisData' = Put(redisData, k, v)
    /\ written' = [written EXCEPT !.redis = [j \in DOMAIN @ \ {k} |-> @[j]]]
    /\ sres' = NoStoreCall
    /\ UNCHANGED memData
    /\ UNCHANGED nonStoreVars

NextStore ==
    \/ \E k \in StoreKeys, t \in StartTime..MaxTime : MemSet(k, t)
    \/ \E k \in StoreKeys : MemGet(k)
    \/ \E k \in StoreKeys, t \in StartTime..MaxTime, ok \in BOOLEAN : RedisSet(k, t, ok)
    \/ \E k \in StoreKeys, ok \in BOOLEAN : RedisGet(k, ok)
    \/ \E k \in StoreKeys, v \in ForeignValues : RedisForeignWrite(k, v)

SpecStore == Init /\ [][NextStore]_vars

\* ------------------------------------------------ child-pipeline discovery

\* The bridge jobs ListPipelineBridges may return: with or without a
\* downstream pipeline, which is of the parent's project, of another
\* project (ProjectID 7), or names no project (ProjectID 0).
BridgeSet ==
    [name : {"b1", "b2"}, present : {FALSE}, projectID : {0}, status : {"none"}]
    \cup [name : {"b1", "b2"}, present : {TRUE}, projectID : {0, 7},
          status : {"success", "failed"}]
BridgeLists == UNION { [1..n -> BridgeSet] : n \in 0..MaxBridges }

\* What GetPipeline(childProject, dp.ID) may answer: an error, or the full
\* pipeline with its Duration and QueuedDuration.
ChildFetches ==
    { [kind |-> "error", duration |-> 0, queued |-> 0] }
    \cup { [kind |-> "ok", duration |-> d, queued |-> q] : d \in {0, 30}, q \in {0, 5} }

\* fmt.Sprintf("%d", dp.ProjectID), "" for the ID 0.
ChildProject(id) == IF id = 0 THEN "" ELSE IF id = 7 THEN "7" ELSE "other"

\* collectChildPipelines: the four child vectors after one bridge with a
\* downstream pipeline, GetPipeline having answered f.
\* The parent is pipeline P10 of project p1.
recordChild(m, b, f) ==
    LET l5 == <<ChildProject(b.projectID), "main", "p1", "main", b.name>>
        duration == IF f.kind = "ok" THEN f.duration ELSE 0
        queued   == IF f.kind = "ok" THEN f.queued ELSE 0
    IN  [duration |-> IF duration > 0 THEN Observe(m.duration, l5, duration) ELSE m.duration,
         queued   |-> IF queued > 0 THEN Observe(m.queued, l5, queued) ELSE m.queued,
         status   |-> SetGauge(m.status, l5 \o <<b.status>>, 1),
         runCount |-> Inc(m.runCount, l5)]

\* collectChildPipelines: ListPipelineBridges; an error is logged and ends
\* the discovery.
ChildList(ok) ==
    /\ disc.pc = "list"
    /\ \E bs \in BridgeLists :
          disc' = IF ok
                  THEN [disc EXCEPT !.pc = IF Len(bs) = 0 THEN "returned" ELSE "loop",
                                    !.bridges = bs]
                  ELSE [disc EXCEPT !.pc = "returned"]
    /\ UNCHANGED childM
    /\ UNCHANGED nonChildVars

\* collectChildPipelines: one iteration of the loop over the bridges.
\* GetPipeline is called only when the downstream names a project.
ChildBridge(f) ==
    /\ disc.pc = "loop"
    /\ LET b == disc.bridges[disc.i]
           fetches == b.present /\ ChildProject(b.projectID) # ""
       IN  /\ f.kind = "none" <=> ~fetches
           /\ childM' = IF b.present THEN recordChild(childM, b, f) ELSE childM
           /\ disc' = [disc EXCEPT !.i = @ + 1, !.last = f,
                                    !.pc = IF disc.i = Len(disc.bridges)
                                           THEN "returned" ELSE "loop"]
    /\ UNCHANGED nonChildVars

NextChild ==
    \/ \E ok \in BOOLEAN : ChildList(ok)
    \/ \E f \in ChildFetches \cup {NoFetch} : ChildBridge(f)

SpecChild == Init /\ [][NextChild]_vars

\* ------------------------------------------------------- MR changes count

\* The characters a ChangesCount string is made of here.
ChangesChars == {"0", "1", "2", "+", ","}

ChangesStrings == UNION { [1..n -> ChangesChars] : n \in 0..MaxChangesLen }

\* The loop over the runes of mr.ChangesCount: every decimal digit is
\* appended to the number, every other rune is passed over.
RECURSIVE changes_StopAtNonDigit(_, _)
changes_StopAtNonDigit(s, acc) ==
    IF s = <<>> \/ ~IsDigit(Head(s)) THEN acc
    ELSE changes_StopAtNonDigit(Tail(s), acc * 10 + DigitVal(Head(s)))

RECURSIVE changes(_, _)
changes(s, acc) ==
    IF s = <<>> THEN acc
    ELSE IF IsDigit(Head(s)) THEN changes(Tail(s), acc * 10 + DigitVal(Head(s)))
    ELSE changes(Tail(s), acc)

\* The changes-count step of the loop over merge requests, for a merge
\* request whose ChangesCount is s.
MRChanges(s) ==
    /\ chg.pc = "mr"
    /\ chg' = [pc |-> "next", input |-> s,
               obs |-> IF s # <<>> THEN Append(chg.obs, changes(s, 0)) ELSE chg.obs]
    /\ UNCHANGED nonChangesVars

NextChanges ==
    \E s \in ChangesStrings : MRChanges(s)

SpecChanges == Init /\ [][NextChanges]_vars

\* ---------------------------------------------------------- task queue

\* select { case q.ch <- fn: ... default: ... }: the send is taken when the
\* buffer has room, the default branch when it has none.
Offer_DropOldest(ch, fn) ==
    IF Len(ch) < bufferSize THEN Append(ch, fn) ELSE Append(Tail(ch), fn)
Offer(ch, fn) ==
    IF Len(ch) < bufferSize THEN Append(ch, fn) ELSE ch

\* TaskQueue.Enqueue(fn). A task that Start is waiting for is handed over
\* through the buffer like any other.
Enqueue(panics) ==
    /\ tq.n < MaxEnqueues
    /\ LET fn == [id |-> tq.n + 1, panics |-> panics]
           sent == Len(tq.ch) < bufferSize
       IN  tq' = [tq EXCEPT !.n = @ + 1,
                            !.ch = Offer(@, fn),
                            !.accepted = IF sent THEN Append(@, fn) ELSE @,
                            !.dropped = IF sent THEN @ ELSE Append(@, fn),
                            !.log = Append(@, IF sent THEN "task enqueued"
                                              ELSE "task queue full, dropping task")]
    /\ UNCHANGED nonQueueVars

\* TaskQueue.Start(ctx): entering the loop.
QueueStart ==
    /\ tq.pc = "new"
    /\ tq' = [tq EXCEPT !.pc = "select"]
    /\ UNCHANGED nonQueueVars

\* The context given to Start is cancelled.
QueueCancel ==
    /\ ~tq.done
    /\ tq' = [tq EXCEPT !.done = TRUE]
    /\ UNCHANGED nonQueueVars

\* case <-ctx.Done(): Start returns.
QueueStop ==
    /\ tq.pc = "select" /\ tq.done
    /\ tq' = [tq EXCEPT !.pc = "returned"]
    /\ UNCHANGED nonQueueVars

\* case fn := <-q.ch: the oldest task leaves the buffer. When the context is
\* done as well, select may take either case.
QueueReceive ==
    /\ tq.pc = "select" /\ tq.ch # <<>>
    /\ tq' = [tq EXCEPT !.pc = "fn", !.fn = Head(tq.ch), !.ch = Tail(tq.ch)]
    /\ UNCHANGED nonQueueVars

\* Where Start goes on after fn() has returned or panicked: the deferred
\* recover stops a panic at the closure around the call.
AfterFn_PanicEscapes(panics) == IF panics THEN "panicked" ELSE "select"
AfterFn(panics) == "select"

\* fn() with its deferred recover.
QueueRun ==
    /\ tq.pc = "fn"
    /\ tq' = [tq EXCEPT !.pc = AfterFn(tq.fn.panics), !.fn = NoFn,
                        !.ran = Append(@, tq.fn),
                        !.log = IF tq.fn.panics THEN Append(@, "queued task panicked")
                                ELSE @]
    /\ UNCHANGED nonQueueVars

NextQueue ==
    \/ \E panics \in BOOLEAN : Enqueue(panics)
    \/ QueueStart
    \/ QueueCancel
    \/ QueueStop
    \/ QueueReceive
    \/ QueueRun

SpecQueue == Init /\ [][NextQueue]_vars

\* ------------------------------------------------- loading the configuration

\* The configuration files, environments and command lines looked at.
Files == [url : {"", "https://file"}, token : {"", "file-token"},
          rps : {0, 5}, pipelines : {"unset", "true", "false"}]
Envs == [url : {"", "https://env"}, token : {"", "env-token"}, rps : {0, 7}]
FlagSets == [url : {"", "https://flag"}, token : {"", "flag-token"}]

\* config.ApplyDefaults: every field it names is assigned its default,
\* whatever the field held; the token is not among them.
ApplyDefaults(c) ==
    [c EXCEPT !.url = "https://gitlab.com", !.rps = 10, !.pipelines = TRUE]

\* yaml.Unmarshal(data, cfg): the keys of the file are assigned, the other
\* fields keep what they hold.
Unmarshal(c, file) ==
    [url |-> IF file.url # "" THEN file.url ELSE c.url,
     token |-> IF file.token # "" THEN file.token ELSE c.token,
     rps |-> IF file.rps # 0 THEN file.rps ELSE c.rps,
     pipelines |-> IF file.pipelines = "unset" THEN c.pipelines
                   ELSE file.pipelines = "true"]

\* applyEnvOverrides: a field with an env tag takes the value of its
\* variable when the variable is set (the collectors' enabled flags have no
\* env tag).
applyEnvOverrides(c, env) ==
    [c EXCEPT !.url = IF env.url # "" THEN env.url ELSE @,
              !.token = IF env.token # "" THEN env.token ELSE @,
              !.rps = IF env.rps # 0 THEN env.rps ELSE @]

\* config.Validate: gitlab.url and gitlab.token are required.
Validate(c) == c.url # "" /\ c.token # ""

\* config.Load(path), after the file was read.
Load(file, env) ==
    LET c == applyEnvOverrides(Unmarshal(ApplyDefaults(ZeroConfig), file), env)
    IN  [cfg |-> c, err |-> IF Validate(c) THEN "none" ELSE "validation"]

\* cmd.String(name) of a flag whose Sources is an environment variable: the
\* command line, else the variable, else "".
FlagString(flag, envValue) == IF flag # "" THEN flag ELSE envValue

\* The Action of the run command, "Load configuration": config.Load when
\* --config is given, an empty Config otherwise.
RunLoad(path, file, env, flags) ==
    /\ cmd.pc = "start"
    /\ ~path => file = NoFile
    /\ LET l == IF path THEN Load(file, env) ELSE [cfg |-> ZeroConfig, err |-> "none"]
       IN  cmd' = [pc |-> IF l.err = "none" THEN "defaults" ELSE "returnedErr",
                   path |-> path, file |-> file, env |-> env, flags |-> flags,
                   cfg |-> IF l.err = "none" THEN l.cfg ELSE ZeroConfig,
                   err |-> IF l.err = "none" THEN "none" ELSE "loading config"]
    /\ UNCHANGED nonLoadVars

\* "Apply defaults for any unset values": config.ApplyDefaults(cfg).
RunApplyDefaults ==
    /\ cmd.pc = "defaults"
    /\ cmd' = [cmd EXCEPT !.pc = "overrides", !.cfg = ApplyDefaults(@)]
    /\ UNCHANGED nonLoadVars

\* "CLI overrides" of the URL and the token.
RunOverrides ==
    /\ cmd.pc = "overrides"
    /\ LET u == FlagString(cmd.flags.url, cmd.env.url)
           t == FlagString(cmd.flags.token, cmd.env.token)
       IN  cmd' = [cmd EXCEPT !.pc = "required",
                              !.cfg.url = IF u # "" THEN u ELSE @,
                              !.cfg.token = IF t # "" THEN t ELSE @]
    /\ UNCHANGED nonLoadVars

\* "Validate required fields", after which the exporter is created.
RunRequired ==
    /\ cmd.pc = "required"
    /\ cmd' = [cmd EXCEPT !.pc = IF cmd.cfg.url = "" \/ cmd.cfg.token = ""
                                 THEN "returnedErr" ELSE "exporter",
                          !.err = IF cmd.cfg.url = "" THEN "gitlab URL is required"
                                  ELSE IF cmd.cfg.token = "" THEN "gitlab token is required"
                                  ELSE "none"]
    /\ UNCHANGED nonLoadVars

NextLoad ==
    \/ \E path \in BOOLEAN : \E file \in Files : \E env \in Envs : \E flags \in FlagSets :
          RunLoad(path, file, env, flags)
    \/ RunApplyDefaults
    \/ RunOverrides
    \/ RunRequired

SpecLoad == Init /\ [][NextLoad]_vars

\* ------------------------------------------------------ repository collector

\* The projects the collector tracks.
RepoProjects == <<"p1", "p2">>

\* What the three fetches for one project may meet: the languages, the
\* statistics and the coverage of the latest pipeline, each fetched or not.
RepoAnswers == [langErr : BOOLEAN, statErr : BOOLEAN, covErr : BOOLEAN]

\* if err := ctx.Err(); err != nil { return err }
CtxErr_Nil(done) == FALSE
CtxErr(done) == done

\* The context Run was given is cancelled; the REST calls of this collector
\* are made without the context and are not affected.
RepoCancel ==
    /\ ~repo.done
    /\ repo' = [repo EXCEPT !.done = TRUE,
                            !.during = repo.pc \in {"head", "project"}]
    /\ UNCHANGED repoObs
    /\ UNCHANGED nonRepoVars

\* Run, up to the loop: the projects are copied, obs is empty.
RepoRunBegin ==
    /\ repo.pc \in {"idle", "returned"}
    /\ repo.runs < MaxRepoRuns
    /\ repo' = [repo EXCEPT !.pc = "head", !.projects = RepoProjects, !.p = 1,
                            !.obs = NoRepoObservations, !.errCount = 0,
                            !.ret = "none", !.runs = @ + 1,
                            !.before = repoObs, !.during = FALSE]
    /\ UNCHANGED repoObs
    /\ UNCHANGED nonRepoVars

\* Run, head of the loop over the projects.
RepoHead ==
    /\ repo.pc = "head"
    /\ repo.p <= Len(repo.projects)
    /\ repo' = IF CtxErr(repo.done)
               THEN [repo EXCEPT !.pc = "returned", !.ret = "ctx"]
               ELSE [repo EXCEPT !.pc = "project"]
    /\ UNCHANGED repoObs
    /\ UNCHANGED nonRepoVars

\* Run, the body of the loop for one project: languages, statistics and
\* coverage. A failed languages or statistics fetch counts one error each, a
\* failed coverage fetch none.
RepoProject(answer) ==
    /\ repo.pc = "project"
    /\ LET project == repo.projects[repo.p]
       IN  repo' = [repo EXCEPT
                     !.errCount = @ + (IF answer.langErr THEN 1 ELSE 0)
                                    + (IF answer.statErr THEN 1 ELSE 0),
                     !.obs.languagePercentage =
                         IF answer.langErr THEN @
                         ELSE Append(@, [labels |-> <<project, "Go">>, value |-> 100]),
                     !.obs.sizeBytes =
                         IF answer.statErr THEN @
                         ELSE Append(@, [labels |-> <<project>>, value |-> 5]),
                     !.obs.coverage =
                         IF answer.covErr THEN @
                         ELSE Append(@, [labels |-> <<project>>, value |-> 80]),
                     !.p = @ + 1,
                     !.pc = "head"]
    /\ UNCHANGED repoObs
    /\ UNCHANGED nonRepoVars

\* Run, after the loop: obs.scrapeErrors = errCount; c.observations = obs;
\* return nil.
RepoPublish ==
    /\ repo.pc = "head"
    /\ repo.p > Len(repo.projects)
    /\ repoObs' = [repo.obs EXCEPT !.scrapeErrors = repo.errCount]
    /\ repo' = [repo EXCEPT !.pc = "returned", !.ret = "nil"]
    /\ UNCHANGED nonRepoVars

NextRepo ==
    \/ RepoCancel
    \/ RepoRunBegin
    \/ RepoHead
    \/ \E answer \in RepoAnswers : RepoProject(answer)
    \/ RepoPublish

SpecRepo == Init /\ [][NextRepo]_vars

\* ---------------------------------------------------------- DORA collector

\* doraMetricTypes, and the field of doraObservations each is appended to.
DoraMetricTypes ==
    <<"deployment_frequency", "lead_time_for_changes", "time_to_restore_service",
      "change_failure_rate">>
DoraFields ==
    <<"deploymentFrequency", "leadTimeForChanges", "timeToRestore", "changeFailureRate">>

\* envTiers := c.config.EnvironmentTiers, "production" when none is configured.
EnvTiers(tiers) == IF Len(tiers) = 0 THEN <<"production">> ELSE tiers

\* What one metric request may meet: the request cannot be built, no
\* response, an error status, or 200 with a series of data points.
DoraAnswers ==
    { [status |-> st, series |-> <<>>] : st \in {"build", "noresponse", "403", "500"} }
    \cup { [status |-> "200", series |-> sr] : sr \in {<<>>, <<5, 7>>} }

\* errCount after a request that failed with the status st.
DoraErrCount_CountAll(st, e) == e + 1
DoraErrCount(st, e) == IF st = "403" THEN e ELSE e + 1

\* latestValue := results[len(results)-1].Value
LatestValue(series) == series[Len(series)]

\* Run, the gate on the tier feature: without HasDORA the observations are
\* replaced by empty ones and Run returns nil.
DoraGate ==
    /\ dora.pc = "start"
    /\ IF dora.hasDORA
       THEN /\ dora' = [dora EXCEPT !.pc = "project"]
            /\ UNCHANGED doraObs
       ELSE /\ dora' = [dora EXCEPT !.pc = "returned", !.ret = "nil"]
            /\ doraObs' = NoDoraObservations
    /\ UNCHANGED nonDoraVars

\* Run, head of the loop over the projects: ctx.Err() is returned as it is,
\* nothing published.
DoraProject(ctxErr) ==
    /\ dora.pc = "project"
    /\ dora.p <= Len(dora.projects)
    /\ dora' = IF ctxErr
               THEN [dora EXCEPT !.pc = "returned", !.ret = "ctx"]
               ELSE [dora EXCEPT !.pc = "request", !.t = 1, !.m = 1]
    /\ UNCHANGED doraObs
    /\ UNCHANGED nonDoraVars

\* Run, one metric request for the project, tier and metric type the loops
\* are at, and the following `continue` or append; then the loops advance.
DoraRequest(answer) ==
    /\ dora.pc = "request"
    /\ LET tiers   == EnvTiers(dora.tiers)
           project == dora.projects[dora.p]
           envTier == tiers[dora.t]
           field   == DoraFields[dora.m]
           failed  == answer.status # "200"
           gauge   == [labels |-> <<project, envTier>>, value |-> LatestValue(answer.series)]
           lastM   == dora.m = Len(DoraMetricTypes)
           lastT   == dora.t = Len(tiers)
       IN  dora' = [dora EXCEPT
                     !.errCount = IF failed THEN DoraErrCount(answer.status, @) ELSE @,
                     !.obs = IF ~failed /\ Len(answer.series) > 0
                             THEN [@ EXCEPT ![field] = Append(@, gauge)]
                             ELSE @,
                     !.last = answer,
                     !.asked = @ \cup {<<project, envTier, DoraMetricTypes[dora.m]>>},
                     !.m = IF lastM THEN 1 ELSE @ + 1,
                     !.t = IF lastM THEN (IF lastT THEN 1 ELSE @ + 1) ELSE @,
                     !.p = IF lastM /\ lastT THEN @ + 1 ELSE @,
                     !.pc = IF lastM /\ lastT THEN "project" ELSE "request"]
    /\ UNCHANGED doraObs
    /\ UNCHANGED nonDoraVars

\* Run, after the loops: obs.scrapeErrors = errCount; c.observations = obs.
DoraPublish ==
    /\ dora.pc = "project"
    /\ dora.p > Len(dora.projects)
    /\ doraObs' = [dora.obs EXCEPT !.scrapeErrors = dora.errCount]
    /\ dora' = [dora EXCEPT !.pc = "returned", !.ret = "nil"]
    /\ UNCHANGED nonDoraVars

NextDora ==
    \/ DoraGate
    \/ \E ctxErr \in BOOLEAN : DoraProject(ctxErr)
    \/ \E answer \in DoraAnswers : DoraRequest(answer)
    \/ DoraPublish

\* One Run for one or two projects, the default tier or a configured one,
\* with and without the DORA feature.
InitDoraRun ==
    /\ InitClient /\ InitSched /\ InitPipe /\ InitMR /\ InitStore
    /\ InitConf(DefaultSecrets) /\ InitHook("")
    /\ InitTier /\ InitKind /\ InitFeed
    /\ InitPages
    /\ InitExp(DefaultConfig, <<>>, UltimateInstance)
    /\ \E projs \in {<<"p1">>, <<"p1", "p2">>}, tiers \in {<<>>, <<"staging">>},
          hasDORA \in BOOLEAN : InitDora(projs, tiers, hasDORA)
    /\ InitChild /\ InitChanges /\ NewTaskQueue /\ InitLoad /\ InitRepo

SpecDora == InitDoraRun /\ [][NextDora]_vars

\* ------------------------------------------------ merge-requests collector

\* The number of merged merge requests in a listing.
RECURSIVE CountMerged(_)
CountMerged(mrs) ==
    IF mrs = <<>> THEN 0
    ELSE (IF Head(mrs) = "merged" THEN 1 ELSE 0) + CountMerged(Tail(mrs))

\* Run's loop over the projects from number i on, errCount and
\* obs.throughput being e and th: a failed listing counts one error and the
\* project is skipped; a project with merged merge requests appends its
\* count to obs.throughput.
RECURSIVE MRLoop(_, _, _, _)
MRLoop(ans, i, e, th) ==
    IF i > Len(MRProjects) THEN [scrapeErrors |-> e, throughput |-> th]
    ELSE IF ans[i].err THEN MRLoop(ans, i + 1, e + 1, th)
    ELSE IF CountMerged(ans[i].mrs) > 0
         THEN MRLoop(ans, i + 1, e, (MRProjects[i] :> CountMerged(ans[i].mrs)) @@ th)
         ELSE MRLoop(ans, i + 1, e, th)

\* MergeRequestsCollector.Run, GitLab answering ans: the observations are
\* built anew and replace c.observations; or the context is done at one of
\* the loop's checks and Run returns its error, c.observations untouched.
MRRun(ans, ctxErr) ==
    /\ mrObs' = IF ctxErr THEN mrObs ELSE MRLoop(ans, 1, 0, <<>>)
    /\ UNCHANGED mrScraped
    /\ UNCHANGED nonMRVars

\* MergeRequestsCollector.Collect: age_mr_throughput_count and
\* age_scrape_errors_total are emitted, as counters, with the values of
\* c.observations.
MRCollect ==
    /\ mrScraped' = [taken |-> TRUE, scrapeErrors |-> mrObs.scrapeErrors,
                     throughput |-> mrObs.throughput]
    /\ UNCHANGED mrObs
    /\ UNCHANGED nonMRVars

NextMR ==
    \/ \E ans \in [1..Len(MRProjects) -> MRAnswers], ctxErr \in BOOLEAN : MRRun(ans, ctxErr)
    \/ MRCollect

SpecMR == Init /\ [][NextMR]_vars

\* ------------------------------------------------------- claims: collectors

\* C1: what one Collect of the pipelines collector emits is what a completed
\* Run left: the state after the last completed Run, never that of a Run
\* which has applied only part of its pipelines.
C1_ScrapeIsCompleteRun ==
    scraped.taken => scraped.values = scraped.complete

\* C16: a second Run, back to back with a first one against the same API
\* state (every call of both answered), leaves every gauge as the first Run
\* left it and advances no histogram's sum or count.
C16_BackToBackIdempotent ==
    [][(ppc # "idle" /\ ppc' = "idle" /\ streak' >= 2)
        => /\ pm'.status = lastComplete.status
           /\ pm'.coverage = lastComplete.coverage
           /\ pm'.id = lastComplete.id
           /\ pm'.createdTS = lastComplete.createdTS
           /\ pm'.duration = lastComplete.duration
           /\ pm'.queuedDuration = lastComplete.queuedDuration]_vars

\* C17: across the Run cycles of a collector, the value emitted for a
\* counter-typed series (age_scrape_errors_total, age_mr_throughput_count)
\* never decreases from one scrape to the next, whatever the API answers.
C17_CountersMonotonic ==
    [][(mrScraped.taken /\ mrScraped'.taken)
        => /\ mrScraped'.scrapeErrors >= mrScraped.scrapeErrors
           /\ \A l \in DOMAIN mrScraped.throughput \cap DOMAIN mrScraped'.throughput :
                  mrScraped'.throughput[l] >= mrScraped.throughput[l]]_vars

\* Pipeline q of project p has its series in the metric vectors m.
Published(m, p, q) ==
    LET k == pipelineKind(q.source)
    IN  /\ <<p, q.ref, k, q.source, q.status>> \in DOMAIN m.status
        /\ m.status[<<p, q.ref, k, q.source, q.status>>] = 1
        /\ <<p, q.ref, k, q.source>> \in DOMAIN m.runCount
        /\ <<p, q.ref, k>> \in DOMAIN m.id

\* C18: within one Run a project whose API call failed is skipped, and every
\* other project of the list is still fetched and what was fetched of it is
\* published: when Run has returned, it has turned to every project, and
\* every pipeline it fetched has its series.
C18_FailedProjectSkipped ==
    /\ (ppc = "idle" /\ cycles > 0) =>
            \A p \in DOMAIN fetched : fetched[p].state # "none"
    /\ ppc = "idle" =>
            \A p \in DOMAIN fetched : \A q \in fetched[p].got : Published(pm, p, q)

\* The first Run has returned: listing the first project failed, and the
\* pipeline of the second was fetched.
C18_Witness ==
    /\ ppc = "idle"
    /\ cycles = 1
    /\ fetched["p1"].state = "failed"
    /\ fetched["p2"].got = {P20}
    /\ Published(pm, "p2", P20)

\* C23: after a Run of the pipelines collector, the gauge age_pipeline_id of
\* a (project, ref, kind) holds the id of the latest of the pipelines fetched
\* for it: no pipeline fetched in the Run has a greater id.
C23_LatestPipelineId ==
    ppc = "idle" =>
        \A p \in DOMAIN fetched : \A q \in fetched[p].got :
            /\ <<p, q.ref, pipelineKind(q.source)>> \in DOMAIN pm.id
            /\ pm.id[<<p, q.ref, pipelineKind(q.source)>>] >= q.id

\* ---------------------------------------------------------- claims: server

\* The string v occurs in the string str.
Contains(str, v) ==
    \E i \in 0..(Len(str) - Len(v)) : SubSeq(str, i + 1, i + Len(v)) = v

\* C24: the body /config returns contains none of the configured values of
\* the GitLab token, the webhook secret and the Redis URL; each of these
\* fields holds the redaction string; the stored configuration is the one
\* the server was given.
C24_ConfigRedacted ==
    cresp.via = "handleConfig" =>
        /\ \A f \in {"token", "secret", "redisURL"} :
               conf[f] # <<>> => /\ ~Contains(cresp.body, conf[f])
                                 /\ cresp.fields[f] = Str_REDACTED
        /\ \E sc \in SecretConfigs :
               /\ conf.token = sc.token
               /\ conf.secret = sc.secret
               /\ conf.redisURL = sc.redisURL

\* The /config body of a configuration whose three secret fields are all set
\* to the redaction string: what the body shows whatever the secrets are.
PublicBody ==
    Encode([conf EXCEPT !.token = Str_REDACTED, !.secret = Str_REDACTED,
                        !.redisURL = Str_REDACTED])

\* C24, amended: in the body /config returns, each of the three fields that
\* is configured holds the redaction string, and a configured value occurs
\* in the body only where it would occur whatever the secrets were (in the
\* redaction string or in another field's value); the stored configuration
\* is the one the server was given.
C24_ConfigRedactedFields ==
    cresp.via = "handleConfig" =>
        /\ \A f \in {"token", "secret", "redisURL"} :
               conf[f] # <<>> => /\ cresp.fields[f] = Str_REDACTED
                                 /\ Contains(cresp.body, conf[f])
                                        => Contains(PublicBody, conf[f])
        /\ \E sc \in SecretConfigs :
               /\ conf.token = sc.token
               /\ conf.secret = sc.secret
               /\ conf.redisURL = sc.redisURL

\* /config was served for a configuration with a token, a webhook secret and
\* a Redis URL, and none of them is in the body.
C24_Witness ==
    /\ cresp.via = "handleConfig"
    /\ conf.token = Str_glpat
    /\ conf.secret = Str_s3cr3t
    /\ conf.redisURL = Str_redis
    /\ \A f \in {"token", "secret", "redisURL"} : ~Contains(cresp.body, conf[f])

\* C25: with a secret configured, a POST whose X-Gitlab-Token differs from
\* it is answered 403 and invokes no callback, whatever its body; a callback
\* is invoked only for a request that passed the token check and carries a
\* project path.
C25_TokenChecked ==
    hresp.taken =>
        /\ (hresp.method = "POST" /\ hook.secretToken # ""
               /\ hresp.token # hook.secretToken)
              => (hresp.status = 403 /\ hresp.calls = <<>>)
        /\ hresp.calls # <<>>
              => /\ hook.secretToken = "" \/ hresp.token = hook.secretToken
                 /\ hresp.path # ""

\* A pipeline event with a project path and the wrong token was refused,
\* the pipeline callback being registered.
C25_Witness ==
    /\ hresp.taken
    /\ hook.secretToken = "s3cr3t"
    /\ hresp.handler.onPipelineEvent
    /\ hresp.method = "POST"
    /\ hresp.token = "wrong"
    /\ hresp.body = "json"
    /\ hresp.kind = "pipeline"
    /\ hresp.path = "g/p"
    /\ hresp.status = 403

\* The request passed the method and token checks and its body is JSON.
Accepted ==
    /\ hresp.taken
    /\ hresp.method = "POST"
    /\ hook.secretToken = "" \/ hresp.token = hook.secretToken
    /\ hresp.body = "json"

\* The callback that matches the request's object_kind, and whether it was
\* registered when the request was served.
Matching == IF hresp.kind = "pipeline" THEN "onPipelineEvent" ELSE "onMREvent"
Registered ==
    IF hresp.kind = "pipeline"
    THEN hresp.handler.onPipelineEvent
    ELSE hresp.handler.onMREvent

\* C26 as stated: for an accepted webhook POST, an object_kind other than
\* pipeline and merge_request is answered 200 and invokes no callback, a
\* payload without project path is answered 400, and a pipeline or
\* merge_request event with a project path is answered 200 and invokes the
\* matching callback exactly once with that path.
C26_KindsDispatched ==
    Accepted =>
        /\ hresp.kind \notin {"pipeline", "merge_request"}
              => (hresp.status = 200 /\ hresp.calls = <<>>)
        /\ hresp.path = "" => hresp.status = 400
        /\ (hresp.kind \in {"pipeline", "merge_request"} /\ hresp.path # "")
              => /\ hresp.status = 200
                 /\ hresp.calls = << <<Matching, hresp.path>> >>

\* C26 as amended: for an accepted webhook POST, a payload without project
\* path is answered 400 whatever its object_kind and invokes no callback;
\* with a project path it is answered 200, and it invokes exactly the
\* matching callback, once and with that path, when its object_kind is
\* pipeline or merge_request and that callback is registered, and no
\* callback otherwise.
C26_PathThenKind ==
    Accepted =>
        IF hresp.path = ""
        THEN hresp.status = 400 /\ hresp.calls = <<>>
        ELSE /\ hresp.status = 200
             /\ hresp.calls =
                  IF hresp.kind \in {"pipeline", "merge_request"} /\ Registered
                  THEN << <<Matching, hresp.path>> >>
                  ELSE <<>>

\* A merge_request event was dispatched to its callback while the pipeline
\* callback is registered as well.
C26_Witness ==
    /\ Accepted
    /\ hresp.handler.onPipelineEvent
    /\ hresp.handler.onMREvent
    /\ hresp.kind = "merge_request"
    /\ hresp.path = "g/p"
    /\ hresp.calls = << <<"onMREvent", "g/p">> >>

\* ------------------------------------------ claims: snapshot collectors

FirstStr(a, b, c, d) == IF a # "" THEN a ELSE IF b # "" THEN b ELSE IF c # "" THEN c ELSE d
FirstInt(b, c, d) == IF b # 0 THEN b ELSE IF c # 0 THEN c ELSE d

\* C37: the configuration the exporter is created with holds, for each
\* setting, the value of the command-line flag if given, else of the
\* environment variable if set, else of the configuration file if it sets
\* one, else the built-in default; what the file sets (the rate limit, a
\* collector's enabled flag) is in effect unless a flag or a variable
\* overrides it.
C37_FileValueSurvives ==
    cmd.pc = "exporter" =>
        /\ cmd.cfg.url = FirstStr(cmd.flags.url, cmd.env.url, cmd.file.url, "https://gitlab.com")
        /\ cmd.cfg.token = FirstStr(cmd.flags.token, cmd.env.token, cmd.file.token, "")
        /\ cmd.cfg.rps = FirstInt(cmd.env.rps, cmd.file.rps, 10)
        /\ cmd.cfg.pipelines = IF cmd.file.pipelines = "unset" THEN TRUE
                               ELSE cmd.file.pipelines = "true"

\* ------------------------------------------------- claims: task queue

\* The task Start is running, as a sequence of at most one task.
Running == IF tq.pc = "fn" THEN <<tq.fn>> ELSE <<>>

\* C36: Enqueue always returns; an Enqueue that finds bufferSize tasks
\* pending drops its task and leaves the pending tasks as they were; the
\* accepted tasks are, in the order of their acceptance, the tasks already
\* run, then the one task being run, then the pending ones; and after a task
\* that panicked Start is back at its select with the pending tasks intact.
C36_DropFifoRecover ==
    /\ [][/\ (tq'.n = tq.n + 1 /\ Len(tq.ch) = bufferSize) =>
                (tq'.ch = tq.ch /\ tq'.accepted = tq.accepted /\ tq'.pc = tq.pc)
          /\ (tq'.n = tq.n + 1 /\ Len(tq.ch) < bufferSize) =>
                (tq'.ch = Append(tq.ch, [id |-> tq.n + 1, panics |-> tq'.ch[Len(tq'.ch)].panics])
                 /\ tq'.accepted = Append(tq.accepted, tq'.ch[Len(tq'.ch)]))
          /\ (tq.pc = "fn" /\ tq'.pc # "fn") =>
                (tq'.pc = "select" /\ tq'.ch = tq.ch /\ tq'.ran = Append(tq.ran, tq.fn))]_vars
    /\ [](/\ tq.accepted = tq.ran \o Running \o tq.ch
          /\ Len(tq.ch) <= bufferSize
          /\ Len(Running) <= 1
          /\ tq.n < MaxEnqueues => ENABLED (\E panics \in BOOLEAN : Enqueue(panics)))

\* A task was dropped at a full buffer, and a task enqueued after one that
\* panicked has been run.
C36_Witness ==
    /\ tq.dropped # <<>>
    /\ \E i \in 1..Len(tq.ran) : \E j \in 1..Len(tq.ran) :
           i < j /\ tq.ran[i].panics /\ tq.ran[i].id < tq.ran[j].id

\* ------------------------------------------- claims: MR changes count

\* The leading run of decimal digits of s, as a number.
RECURSIVE LeadingRun(_, _)
LeadingRun(s, acc) ==
    IF s = <<>> \/ ~(Head(s) \in {"0", "1", "2", "3", "4", "5", "6", "7", "8", "9"}) THEN acc
    ELSE LeadingRun(Tail(s),
                    acc * 10 + (CHOOSE d \in 0..9 : DigitChars[d + 1] = Head(s)))

\* C35: the changes count observed for a merge request is the number
\* written by the leading run of decimal digits of its ChangesCount string,
\* the characters after the first non-digit contributing nothing ("12+" gives
\* 12, "1,0" gives 1), and an empty string gives no observation.
C35_LeadingDigitsOnly ==
    chg.pc = "next" =>
        IF chg.input = <<>> THEN chg.obs = <<>>
        ELSE chg.obs = <<LeadingRun(chg.input, 0)>>

\* -------------------------------------------- claims: child pipelines

\* C34: in child-pipeline discovery a bridge without downstream pipeline
\* changes no child metric, and a bridge whose downstream pipeline
\* GetPipeline could not fetch changes none either (duration, queued
\* duration, status, run count); the discovery goes on with the next bridge.
C34_InaccessibleChildSkipped ==
    [][(disc.pc = "loop" /\ disc' # disc) =>
          LET b == disc.bridges[disc.i]
          IN  /\ ~b.present => childM' = childM
              /\ (b.present /\ disc'.last.kind = "error") => childM' = childM
              /\ disc'.i = disc.i + 1
              /\ disc'.pc = IF disc.i = Len(disc.bridges) THEN "returned" ELSE "loop"]_vars

\* ----------------------------------------------- claims: DORA collector

\* C33: in a DORA run a request answered 403 leaves the error count as it
\* is, every other failed request adds one, and either way the run goes on
\* to the next metric type, tier and project, so that a run that is not
\* cancelled asks every combination; a non-empty series adds one gauge whose
\* value is the last data point; the published error count and gauges are
\* the run's.
C33_DoraErrors ==
    /\ [][(dora.pc = "request" /\ dora' # dora) =>
            LET a == dora'.last
                f == DoraFields[dora.m]
            IN  /\ a.status = "403" =>
                      (dora'.errCount = dora.errCount /\ dora'.obs = dora.obs)
                /\ a.status \in {"build", "noresponse", "500"} =>
                      (dora'.errCount = dora.errCount + 1 /\ dora'.obs = dora.obs)
                /\ (a.status = "200" /\ a.series # <<>>) =>
                      /\ dora'.errCount = dora.errCount
                      /\ Len(dora'.obs[f]) = Len(dora.obs[f]) + 1
                      /\ dora'.obs[f][Len(dora'.obs[f])].value = a.series[Len(a.series)]
                      /\ dora'.obs[f][Len(dora'.obs[f])].labels =
                            <<dora.projects[dora.p], EnvTiers(dora.tiers)[dora.t]>>
                /\ dora'.pc \in {"request", "project"}
                /\ Cardinality(dora'.asked) = Cardinality(dora.asked) + 1]_vars
    /\ []((dora.pc = "returned" /\ dora.ret = "nil" /\ dora.hasDORA) =>
            /\ dora.asked =
                  { <<dora.projects[i], EnvTiers(dora.tiers)[j], DoraMetricTypes[k]>> :
                       i \in 1..Len(dora.projects), j \in 1..Len(EnvTiers(dora.tiers)),
                       k \in 1..Len(DoraMetricTypes) }
            /\ doraObs.scrapeErrors = dora.errCount
            /\ \A k \in 1..Len(DoraFields) :
                  doraObs[DoraFields[k]] = dora.obs[DoraFields[k]])

\* A run over two projects met a 403 and another failure in the first
\* project and still published a gauge of the second, with one error.
C33_Witness ==
    /\ dora.pc = "returned"
    /\ dora.ret = "nil"
    /\ Len(dora.projects) = 2
    /\ doraObs.scrapeErrors = 1
    /\ Len(doraObs.changeFailureRate) = 1
    /\ doraObs.changeFailureRate[1].labels[1] = "p2"
    /\ doraObs.deploymentFrequency = <<>>

\* ------------------------------------------------ claims: pipeline kinds

PipelineKinds == {"child", "trigger", "merge_request", "schedule", "branch"}

\* C28: pipelineKind gives every source, the empty and unknown ones
\* included, exactly one kind, and that kind is child exactly for
\* parent_pipeline, trigger exactly for trigger and pipeline, merge_request
\* exactly for merge_request_event, schedule exactly for schedule, and
\* branch for everything else.
C28_KindTotal ==
    /\ \A d \in derived :
          /\ d[2] \in PipelineKinds
          /\ d[2] = "child" <=> d[1] = "parent_pipeline"
          /\ d[2] = "trigger" <=> d[1] \in {"trigger", "pipeline"}
          /\ d[2] = "merge_request" <=> d[1] = "merge_request_event"
          /\ d[2] = "schedule" <=> d[1] = "schedule"
    /\ \A d, e \in derived : d[1] = e[1] => d[2] = e[2]

\* The kinds of the source pipeline and of the empty source were derived.
C28_Witness ==
    /\ <<"pipeline", "trigger">> \in derived
    /\ <<"", "branch">> \in derived

\* ------------------------------------------------- claims: tier detection

\* C27: the tier Detect returns is determined by the four capability flags
\* alone: Ultimate exactly when HasDORA, Premium exactly when not HasDORA
\* and one of HasValueStream, HasMRAnalytics, HasCodeReview, Free exactly
\* when none of the four flags is set.
C27_TierFromFlags ==
    tpc = "returned" =>
        LET premium == \/ detected.HasValueStream
                       \/ detected.HasMRAnalytics
                       \/ detected.HasCodeReview
        IN  /\ detected.Tier \in {TierFree, TierPremium, TierUltimate}
            /\ detected.Tier = TierUltimate <=> detected.HasDORA
            /\ detected.Tier = TierPremium <=> (~detected.HasDORA /\ premium)
            /\ detected.Tier = TierFree <=> (~detected.HasDORA /\ ~premium)

\* Detect returned Ultimate for an instance that has DORA and a Premium
\* capability.
C27_Witness ==
    /\ tpc = "returned"
    /\ detected.HasDORA
    /\ detected.HasMRAnalytics
    /\ ~detected.HasValueStream
    /\ detected.Tier = TierUltimate

C21_LastUpdatedSet ==
    (ppc = "idle" /\ cycles > 0) =>
        \A p \in DOMAIN fetched :
            fetched[p].state = "listed" =>
                \/ /\ <<p, "pipelines">> \in DOMAIN memData
                   /\ memData[<<p, "pipelines">>] # ZeroTime
                \/ /\ <<p, "pipelines">> \in DOMAIN redisData
                   /\ RedisParse(redisData[<<p, "pipelines">>]).t # ZeroTime

\* C22: GetLastUpdated on a key that is missing, or whose stored string is
\* not decimal epoch seconds, yields the zero time and no error, in both
\* stores; and it yields what SetLastUpdated last stored under the key, to
\* the second for the Redis store.
C22_GetDegrades ==
    (sres.op = "get" /\ ~sres.failed) =>
        IF sres.store = "memory"
        THEN /\ ~sres.err
             /\ sres.key \notin DOMAIN written.memory => sres.t = ZeroTime
             /\ sres.key \in DOMAIN written.memory => sres.t = written.memory[sres.key]
        ELSE /\ sres.key \notin DOMAIN redisData => (sres.t = ZeroTime /\ ~sres.err)
             /\ (sres.key \in DOMAIN redisData /\ ~Atoi(redisData[sres.key]).ok)
                    => (sres.t = ZeroTime /\ ~sres.err)
             /\ sres.key \in DOMAIN written.redis
                    => /\ ~sres.err
                       /\ sres.t = Second * (written.redis[sres.key] \div Second)

\* --------------------------------------------------------- claims: startup

\* C12: after startup a collector is scheduled, and age_collector_enabled is
\* 1 for it, exactly when the configuration enables it and the instance's
\* capability allows it (hasDORA, hasValueStream, hasCodeReview for the gated
\* kinds, always for the others); one for which this is false has no task.
C12_EffectiveEnabled ==
    epc = "built" =>
        \A k \in KindSet :
            LET allowed ==
                    /\ cfg.enabled[k]
                    /\ k = "dora" => instance.hasDORA
                    /\ k = "value_stream" => instance.hasValueStream
                    /\ k = "code_review" => instance.hasCodeReview
            IN  /\ collectorEnabled[k] = (IF allowed THEN 1 ELSE 0)
                /\ k \in tasks <=> allowed

\* C13: tier detection runs between the choice of the store and the
\* resolution of the projects: when registerCollectors reads the capability
\* record, TierDetector.Detect has produced it and it is stored on the
\* client; and startup fails when /version does not answer.
C13_TierDetectionAtStartup ==
    /\ epc \in {"server", "built"} => ~features.isNil
    /\ epc = "built" => instance.versionOk

\* discoverProjects has returned, and nothing was done since.
Discovered == elog # <<>> /\ elog[Len(elog)] \in {"discover", "discoverErr"}

\* The paths of the pages of the listings ls, in wildcard and page order;
\* of every listing, or only of those that did not fail.
RECURSIVE Flatten(_)
Flatten(ss) == IF ss = <<>> THEN <<>> ELSE Head(ss) \o Flatten(Tail(ss))

RECURSIVE Found(_, _)
Found(ls, failedToo) ==
    IF ls = <<>> THEN <<>>
    ELSE (IF failedToo \/ Head(ls).ends = "last" THEN Flatten(Head(ls).pages) ELSE <<>>)
         \o Found(Tail(ls), failedToo)

Elements(s) == { s[i] : i \in 1..Len(s) }

\* The first position of x in the sequence s.
FirstIndex(s, x) == CHOOSE i \in 1..Len(s) : s[i] = x /\ \A j \in 1..(i - 1) : s[j] # x

\* C19: the resolver's list has no duplicate path, and its paths are those
\* configured explicitly, in configuration order, then those the wildcards
\* found, in declaration and page order, each at the place of its first
\* occurrence.
C19_ResolvedOrder ==
    Discovered =>
        LET all == cfg.projects \o Found(listings, TRUE)
        IN  /\ \A i, j \in 1..Len(projects) : i < j => projects[i] # projects[j]
            /\ Elements(projects) = Elements(all)
            /\ \A i, j \in 1..Len(projects) :
                   i < j => FirstIndex(all, projects[i]) < FirstIndex(all, projects[j])

\* A path configured explicitly and found by both of two wildcards, another
\* found by one wildcard and then explicitly configured paths first.
C19_Witness ==
    /\ Discovered
    /\ cfg.projects = <<"b", "a">>
    /\ Len(listings) = 2
    /\ \A i \in 1..2 : "a" \in Elements(Found(<<listings[i]>>, TRUE))
    /\ projects = <<"b", "a", "c">>

\* C20: a failed listing of one wildcard does not fail the resolution: the
\* explicit projects and what the other wildcards found are returned; the
\* resolution fails exactly when nothing was resolved.
C20_WildcardFailureSkipped ==
    Discovered =>
        /\ (epc = "failed") <=> (projects = <<>>)
        /\ Elements(cfg.projects \o Found(listings, FALSE)) \subseteq Elements(projects)
        /\ (epc = "failed") => Elements(cfg.projects \o Found(listings, TRUE)) = {}

\* The first wildcard's listing failed at its first request, and the
\* resolution returned the explicit project and what the second found.
C20_Witness ==
    /\ Discovered
    /\ epc = "register"
    /\ cfg.projects = <<"a">>
    /\ Len(listings) = 2
    /\ listings[1] = [pages |-> <<>>, ends |-> "error"]
    /\ listings[2].ends = "last"
    /\ projects = <<"a", "b", "c">>

\* C14: the HTTP server is started before the scheduler: no collector
\* runFunc has been invoked unless the HTTP server start has succeeded, and
\* the readiness latch is true only after both have started.
C14_ServerBeforeScheduler ==
    /\ (\E t \in Tasks : runs[t] > 0) => srv \in {"up", "stopped"}
    /\ ready => (started /\ srv = "up")

\* C39: when Exporter.Run has returned an error because the HTTP server
\* failed to start, the readiness latch is false, the workers' context is
\* cancelled and every worker that was launched has returned.
C39_NoWorkerLeftOnStartError ==
    (epc = "returnedErr" /\ srv = "failed") =>
        /\ ~ready
        /\ cancelled
        /\ wg = 0
        /\ \A t \in tasks : wpc[t] = "done"

\* The steps of Exporter.Run's shutdown, as logged, in the order the claim
\* gives them.
ShutdownSteps ==
    << {"notReady"}, {"serverStop", "serverStopErr"}, {"schedulerCancel"},
       {"schedulerStopped"}, {"storeClose", "storeCloseErr"} >>

\* How many shutdown steps Run has taken when it stands at pc.
ShutdownDone(pc_) ==
    CASE pc_ = "stopServer" -> 1
      [] pc_ = "stopScheduler" -> 2
      [] pc_ = "awaitWorkers" -> 3
      [] pc_ = "closeStore" -> 4
      [] pc_ = "returned" -> 5
      [] OTHER -> 0

\* C15: on shutdown the readiness latch is set false, then the HTTP server
\* is shut down, then the scheduler is cancelled and all its workers
\* awaited, then the store is closed, in this order, whether or not the
\* server shutdown or the store close failed: wherever Run stands after the
\* signal, the log ends with exactly the steps before that point, in order,
\* and Run returns only after all five.
C15_ShutdownOrder ==
    LET n == ShutdownDone(epc)
        first == Len(elog) - n
    IN  /\ epc \in {"serving", "stopServer", "stopScheduler", "awaitWorkers",
                    "closeStore", "returned"}
           => /\ first >= 0
              /\ \A i \in 1..n : elog[first + i] \in ShutdownSteps[i]
              /\ \A i \in 1..first : elog[i] \notin UNION { ShutdownSteps[j] : j \in 1..5 }
        /\ n >= 1 => ~ready
        /\ n >= 2 => srv = "stopped"
        /\ n >= 3 => cancelled
        /\ n >= 4 => (wg = 0 /\ \A t \in tasks : wpc[t] = "done")
        /\ n >= 5 => store.closed

\* Run returned after a shutdown in which both the server shutdown and the
\* store close failed, with workers that had run.
C15_Witness ==
    /\ epc = "returned"
    /\ \E i \in 1..Len(elog) : elog[i] = "serverStopErr"
    /\ elog[Len(elog)] = "storeCloseErr"
    /\ \E t \in tasks : runs[t] >= 2

\* ------------------------------------------- claims: rate limiter, client

\* C31: a paginated call asks for page 1 first and then for the page the
\* last response named, until a response names none; every page requested
\* was preceded by one rate-limit acquisition of its own; an error on a page
\* ends the call, which returns the error.
C31_PagesFollowed ==
    LET n == Len(fap.requested)
    IN  /\ n >= 1 => fap.requested[1] = 1
        /\ \A i \in 2..n :
              /\ fap.answers[i - 1].answer = "page"
              /\ fap.answers[i - 1].nextPage # 0
              /\ fap.requested[i] = fap.answers[i - 1].nextPage
        /\ fap.waits = n + (IF fap.pc = "request" THEN 1 ELSE 0)
        /\ \A i \in 1..n :
              fap.answers[i].answer = "error"
              => (i = n /\ fap.pc = "returned" /\ fap.err = "request")
        /\ (fap.pc = "returned" /\ fap.err = "none")
              => (n >= 1 /\ (fap.answers[n].answer = "nil" \/
                              (fap.answers[n].answer = "page" /\ fap.answers[n].nextPage = 0)))
        /\ (fap.pc = "wait" /\ n >= 1) => fap.page = fap.answers[n].nextPage

\* Page 1 named page 3, page 3 was fetched and failed: two acquisitions.
C31_Witness ==
    /\ fap.pc = "returned"
    /\ fap.requested = <<1, 3>>
    /\ fap.waits = 2
    /\ fap.err = "request"


\* C2: every request dispatched to GitLab was preceded by a RateLimiter.Wait
\* that returned success (as many successful Waits as dispatches).
C2_WaitBeforeDispatch ==
    \A c \in Callers : call[c].dispatched => call[c].waited

\* C3: under any interleaving with UpdateFromHeaders, Wait returns success
\* only when now >= backoffUntil (its value at the return), a token consumed.
C3_WaitReturnsPastBackoff ==
    \A c \in Callers : (pc[c] = "sent" /\ call[c].waited) => ~grant[c].early

\* C4: no UpdateFromHeaders call, whatever the headers, moves backoffUntil to
\* an earlier time.
C4_BackoffMonotonic == [][backoffUntil' >= backoffUntil]_vars

\* An exhausted window whose reset lies before the backoff in force was stored:
\* the update that stored it had an earlier deadline and did not retract.
C4_Witness ==
    /\ headerRemaining <= 0 /\ headerRemaining # -1
    /\ headerReset # ZeroTime
    /\ backoffUntil > headerReset

\* C5: after every response (error statuses included) the client has passed
\* the response's headers to UpdateFromHeaders when it returns to its caller.
C5_HeadersFedAfterResponse ==
    \A c \in Callers :
        (kind[c] \in WaitingKinds /\ call[c].gotResp) => call[c].fed

\* C6 as stated: after a response with RateLimit-Remaining <= 0 and a reset R
\* in the future was processed, a Wait that starts afterwards never returns
\* success before R.
C6_DelayedUntilReset ==
    \A c \in Callers : pc[c] = "sent" => ~grant[c].beforeReset

\* C6 amended: the same, for responses that carry no usable Retry-After.
C6_DelayedUntilResetNoRetryAfter ==
    \A c \in Callers : pc[c] = "sent" => ~grant[c].beforeResetNoRA

\* A Wait begun after such a response sleeps to the reset with a token at hand.
C6_Witness ==
    \E c \in Callers :
        /\ pc[c] = "sleep"
        /\ startObl[c].resetNoRA > now
        /\ backoff[c] >= startObl[c].resetNoRA
        /\ tokens >= 1

\* C7: a response with Retry-After = n > 0 makes UpdateFromHeaders set
\* backoffUntil to max(backoffUntil, now + n s) and leave the stored
\* RateLimit-Remaining / RateLimit-Reset alone; a Wait that starts afterwards
\* does not return success before n seconds have passed.
C7_RetryAfter ==
    /\ [][\A c \in Callers :
            (pc[c] = "sent" /\ pc'[c] # "sent" /\ call'[c].fed /\ lastRetryAfter' > 0)
            => /\ backoffUntil' = Max(backoffUntil, now + lastRetryAfter' * Second)
               /\ headerRemaining' = headerRemaining
               /\ headerReset' = headerReset]_vars
    /\ [](\A c \in Callers : pc[c] = "sent" => ~grant[c].beforeRetry)

\* A Wait begun after a Retry-After sleeps it out with a token at hand.
C7_Witness ==
    \E c \in Callers :
        /\ pc[c] = "sleep"
        /\ lastRetryAfter > 0
        /\ startObl[c].retry > now
        /\ backoff[c] >= startObl[c].retry
        /\ tokens >= 1

\* The least whole number of ticks q with q * b >= a, for a > 0, b > 0.
LeastCover(a, b) == CHOOSE q \in 1..a : q * b >= a /\ (q - 1) * b < a

C30_CancelledWaitTakesNoToken ==
    [][\A c \in Callers :
         (ctxDone /\ pc[c] \in {"sleep", "local"} /\ pc'[c] # pc[c])
         => /\ tokens' = tokens
            /\ pc'[c] \in (IF pc[c] = "sleep" THEN {"local", "idle"} ELSE {"idle"})
            /\ pc'[c] = "idle" => (~call'[c].waited /\ ~call'[c].dispatched)]_vars

\* The context was cancelled while a Wait sleeps before its deadline, with a
\* token in the bucket.
C30_Witness ==
    \E c \in Callers :
        /\ pc[c] = "sleep"
        /\ ctxDone
        /\ now < backoff[c]
        /\ tokens >= 1


\* -------------------------------------------------------- claims: scheduler

\* C8: a worker invokes its runFunc once as soon as it starts and once for
\* every tick it takes from its ticker; a runFunc that returns an error sends
\* the worker back to its select, and only a cancelled context ends the loop.
C8_WorkerLoop ==
    [][\A t \in Tasks :
         /\ (wpc[t] = "start" /\ wpc'[t] # "start")
               => (wpc'[t] = "exec" /\ runs'[t] = runs[t] + 1)
         /\ (wpc[t] = "select" /\ ticks[t] = 1 /\ ticks'[t] = 0 /\ wpc'[t] # "done")
               => (wpc'[t] = "exec" /\ runs'[t] = runs[t] + 1)
         /\ (wpc[t] = "exec" /\ wpc'[t] # "exec" /\ lastResult'[t] = "err")
               => wpc'[t] = "select"
         /\ (wpc[t] # "done" /\ wpc'[t] = "done")
               => (wpc[t] = "select" /\ cancelled)]_vars

\* A worker whose last runFunc returned an error is running runFunc again.
C8_Witness ==
    \E t \in Tasks : wpc[t] = "exec" /\ lastResult[t] = "err" /\ runs[t] >= 2

\* C9: a panic inside a task's runFunc is recovered: that task's worker stays
\* in its loop and the other workers are unaffected.
C9_PanicRecovered ==
    \A t \in Tasks :
        lastResult[t] = "panic" => (~crashed /\ wpc[t] \in {"select", "exec", "done"})

\* C10: Stop cancels the workers' context and returns only when every worker
\* launched by Start has returned; after that no runFunc runs or is started.
C10_StopWaits ==
    /\ [](stopPc # "none" => cancelled)
    /\ [](stopPc = "returned" => \A t \in Tasks : wpc[t] = "done")
    /\ [][stopPc = "returned" => (runs' = runs /\ wpc' = wpc)]_vars

\* Stop has returned after workers ran their runFunc more than once.
C10_Witness ==
    /\ stopPc = "returned"
    /\ \A t \in Tasks : runs[t] >= 2

\* C11: once the workers' context is cancelled, no worker starts a further
\* runFunc invocation: not for a tick pending at the cancellation, and not a
\* first invocation when the cancellation came before it.
C11_NoRunAfterCancel ==
    [][cancelled => \A t \in Tasks : runs'[t] = runs[t]]_vars

====
